---- MODULE Spec2Model ----
(***************************************************************************)
(* Event search (connpass): the search pipeline of routes/home.tsx, the    *)
(* map view EventMap and the event bus (window) between list and map.      *)
(*                                                                         *)
(* Strings are sequences of one-character strings, so that splitting,      *)
(* lower-casing, tag stripping and substring search are computed and not   *)
(* assumed; a character outside ASCII is written by its code point, as in  *)
(* "u30aa".  A Date is its time value in hours since 1970-01-01T00:00Z     *)
(* (every time the pipeline handles is a whole number of hours).  A date   *)
(* token "YYYYMMDD" is the number YYYY*10000 + MM*100 + DD.                *)
(***************************************************************************)
EXTENDS Integers, Sequences, FiniteSets, TLC

VARIABLES
    pc,               \* position of the request handler `action`
    tz,               \* time zone of the server process (environment)
    formData,         \* the submitted form (request.formData())
    startDate,        \* home.tsx:89
    endDate,          \* home.tsx:93
    includeKeywords,  \* home.tsx:99
    excludeKeywords,  \* home.tsx:99
    formValues,       \* home.tsx:101
    cursor,           \* home.tsx:114
    dates,            \* home.tsx:112
    params,           \* home.tsx:122
    fetched,          \* result.events ?? [] of the last successful fetch
    response,         \* the Response the handler returns
    requests,         \* calls of fetch (home.tsx:141) since the last submission
    reply,            \* what the remote catalogue answered to the last fetch
    navigation,       \* useNavigation().state of the page, home.tsx:211
    actionData,       \* useActionData() of the page, home.tsx:210
    mounted,          \* which instances of the map view EventMap are mounted
    props,            \* the props of the last commit of each map view
    mapRef,           \* the Leaflet map of each map view (mapRef.current)
    markersLayerRef,  \* the markers on that map (markersLayerRef.current)
    markerEventMapRef,\* event id -> marker of each map view
    prevLoadingRef,   \* prevLoadingRef.current of each map view
    renderTask,       \* renderEventMap awaiting Leaflet, of each map view
    leaflet,          \* window.L and leafletPromise of the page
    listeners,        \* listeners of MAP_FOCUS_MARKER_EVENT on window
    dispatched,       \* the last event dispatched on window, and who got it
    fieldStartDate,   \* EventSearch: the state startDate of the form
    fieldEndDate,     \* EventSearch: the state endDate of the form
    highlighted,      \* ids of the cards that carry EVENT_HIGHLIGHT_CLASSES
    timers,           \* pending window.setTimeout(..., 1800), oldest first
    scrolledTo,       \* id of the card of the last window.scrollTo, or 0
    isFullScreenOpen, \* the state isFullScreenOpen of each map view
    mapContainer,     \* mapRef.current.getContainer(): the surface of the map
    leafletId,        \* whether the surfaces of each view carry a _leaflet_id
    instances,        \* Leaflet maps each view has created and not removed
    staleTasks,       \* renders of each view whose effect was cleaned up
    rendered,         \* what the last render of each view did on resuming
    scripts           \* script elements of Leaflet appended to the document

\* the state of the request handler
handlerVars == <<pc, tz, formData, startDate, endDate, includeKeywords,
                 excludeKeywords, formValues, cursor, dates, params, fetched,
                 response, requests, reply>>

\* the state of the page
pageVars == <<navigation, actionData>>

\* the state of the map views and of the event bus (window)
viewVars == <<mounted, props, mapRef, markersLayerRef, markerEventMapRef,
              prevLoadingRef, renderTask, leaflet, listeners, dispatched>>

\* the state of the search form
formVars == <<fieldStartDate, fieldEndDate>>

\* the state of the cards of the list (DOM) and of the timers of the page
cardVars == <<highlighted, timers, scrolledTo>>

\* the surfaces of the map views, the Leaflet instances and the scripts
surfaceVars == <<isFullScreenOpen, mapContainer, leafletId, instances,
                 staleTasks, rendered, scripts>>

vars == <<handlerVars, pageVars, viewVars, formVars, cardVars, surfaceVars>>

-----------------------------------------------------------------------------
(* Bounds of the model *)

MaxKwLen == 4      \* longest raw keyword of the exhaustive keyword inputs
MaxSpan == 4       \* days after each window start that a date input may name
MaxLimit == 12     \* largest capacity limit of a fetched record
MaxTokens == 80    \* cap on the date loop (never reached by the code's loop)
MaxDescLen == 4    \* longest description of the exhaustive description inputs
MaxTimers == 3     \* cap on the removal timers that are pending at a time

-----------------------------------------------------------------------------
(* Strings *)

\* null / undefined where a string is expected
NullStr == <<"null">>

EmptyStr == <<>>

UpperChars == <<"A","B","C","D","E","F","G","H","I","J","K","L","M",
                "N","O","P","Q","R","S","T","U","V","W","X","Y","Z">>
LowerChars == <<"a","b","c","d","e","f","g","h","i","j","k","l","m",
                "n","o","p","q","r","s","t","u","v","w","x","y","z">>

\* String.prototype.toLowerCase, one character
LowerChar(c) ==
    IF \E i \in 1..Len(UpperChars) : UpperChars[i] = c
    THEN LowerChars[CHOOSE i \in 1..Len(UpperChars) : UpperChars[i] = c]
    ELSE c

\* String.prototype.toLowerCase
ToLowerCase(s) == [i \in 1..Len(s) |-> LowerChar(s[i])]

\* the characters the regular expression class \s matches (space and tab
\* stand for the whole class)
WhiteSpace == {" ", "\t"}

\* String.prototype.includes
Includes(text, kw) ==
    \E i \in 0..(Len(text) - Len(kw)) : SubSeq(text, i + 1, i + Len(kw)) = kw

\* String.prototype.startsWith
StartsWith(s, prefix) ==
    Len(s) >= Len(prefix) /\ SubSeq(s, 1, Len(prefix)) = prefix

\* Boolean(value) of a string or null
Truthy(s) == s # NullStr /\ s # EmptyStr

\* input.split(/\s+/): the pieces between maximal runs of white space; an
\* empty piece leads (trails) when the input starts (ends) with white space
RECURSIVE SplitFrom(_, _, _, _)
SplitFrom(s, i, piece, inRun) ==
    IF i > Len(s) THEN <<piece>>
    ELSE IF s[i] \in WhiteSpace
         THEN IF inRun
              THEN SplitFrom(s, i + 1, piece, TRUE)
              ELSE <<piece>> \o SplitFrom(s, i + 1, <<>>, TRUE)
         ELSE SplitFrom(s, i + 1, Append(piece, s[i]), FALSE)

SplitWhiteSpace(s) == SplitFrom(s, 1, <<>>, FALSE)

\* String.prototype.trim
RECURSIVE Trim(_)
Trim(s) ==
    IF s = <<>> THEN s
    ELSE IF s[1] \in WhiteSpace THEN Trim(Tail(s))
    ELSE IF s[Len(s)] \in WhiteSpace THEN Trim(SubSeq(s, 1, Len(s) - 1))
    ELSE s

\* Array.prototype.join(" ")
RECURSIVE JoinSpace(_)
JoinSpace(parts) ==
    IF parts = <<>> THEN <<>>
    ELSE IF Len(parts) = 1 THEN parts[1]
    ELSE parts[1] \o <<" ">> \o JoinSpace(Tail(parts))

-----------------------------------------------------------------------------
(* parseKeywordInput *)

\* input.split(/\s+/).map(trim).filter(Boolean)
Tokens(input) ==
    SelectSeq([i \in 1..Len(SplitWhiteSpace(input)) |->
                   Trim(SplitWhiteSpace(input)[i])],
              LAMBDA t : t # <<>>)

IsExcludeToken(token) == StartsWith(token, <<"-">>) /\ Len(token) > 1

\* faulty variant: every token is an include term
IsIncludeTokenAny(token) == TRUE

IsIncludeToken(token) == ~IsExcludeToken(token) /\ token # <<"-">>

\* faulty variant: every leading "-" is removed
RECURSIVE ExcludeTermAllDashes(_)
ExcludeTermAllDashes(token) ==
    IF token # <<>> /\ token[1] = "-" THEN ExcludeTermAllDashes(Tail(token))
    ELSE token

\* token.slice(1)
ExcludeTerm(token) == Tail(token)

parseKeywordInput(input) ==
    IF ~Truthy(input)
    THEN [includeKeywords |-> <<>>, excludeKeywords |-> <<>>]
    ELSE LET tokens == Tokens(input)
             excl == SelectSeq(tokens, IsExcludeToken)
         IN  [includeKeywords |-> SelectSeq(tokens, IsIncludeToken),
              excludeKeywords |-> [i \in 1..Len(excl) |-> ExcludeTerm(excl[i])]]

-----------------------------------------------------------------------------
(* stripHtmlTags, buildSearchableText *)

\* faulty variant: /<[^>]*>/g, which leaves a "<" that no ">" follows
RECURSIVE StripFromClosed(_, _, _)
StripFromClosed(s, i, inTag) ==
    IF i > Len(s) THEN <<>>
    ELSE IF inTag
         THEN StripFromClosed(s, i + 1, s[i] # ">")
         ELSE IF s[i] = "<" /\ \E m \in (i + 1)..Len(s) : s[m] = ">"
              THEN StripFromClosed(s, i + 1, TRUE)
              ELSE <<s[i]>> \o StripFromClosed(s, i + 1, FALSE)

\* value.replace(/<[^>]*>?/g, ""): from each "<" up to and including the next
\* ">", or up to the end of the string when no ">" follows
RECURSIVE StripFrom(_, _, _)
StripFrom(s, i, inTag) ==
    IF i > Len(s) THEN <<>>
    ELSE IF inTag
         THEN StripFrom(s, i + 1, s[i] # ">")
         ELSE IF s[i] = "<"
              THEN StripFrom(s, i + 1, TRUE)
              ELSE <<s[i]>> \o StripFrom(s, i + 1, FALSE)

stripHtmlTags(value) ==
    IF ~Truthy(value) THEN EmptyStr ELSE StripFrom(value, 1, FALSE)

buildSearchableText(event) ==
    ToLowerCase(JoinSpace(SelectSeq(
        <<event.title, event.place, event.address,
          stripHtmlTags(event.description)>>,
        Truthy)))

\* regex.test(s) for a case-insensitive alternation of literal substrings
\* (the alternatives are written in lower case)
RegexTestI(alternatives, s) ==
    \E a \in alternatives : Includes(ToLowerCase(s), a)

PlaceDenylist == {<<"u30aa", "u30f3", "u30e9", "u30a4", "u30f3">>, <<"o", "n", "l", "i", "n", "e">>, <<"a", "b", "e", "m", "a">>}

TitleDenylist == {<<"u3082", "u304f", "u3082", "u304f">>, <<"c", "o", "d", "e", "r", "d", "o", "j", "o">>, <<"u6c38", "u7530", "u753a">>}

-----------------------------------------------------------------------------
(* Dates *)

\* null where a Date is expected
NullDate == -1

HoursPerDay == 24

\* the day number (days since 1970-01-01) of a proleptic Gregorian date;
\* a day of month past the month's end runs into the next month (MakeDay)
DaysFromCivil(y, m, d) ==
    LET yy  == IF m <= 2 THEN y - 1 ELSE y
        era == yy \div 400
        yoe == yy - era * 400
        mp  == IF m > 2 THEN m - 3 ELSE m + 9
        doy == (153 * mp + 2) \div 5 + d - 1
        doe == yoe * 365 + yoe \div 4 - yoe \div 100 + doy
    IN  era * 146097 + doe - 719468

\* the year, month and day of month of a day number
CivilFromDays(z0) ==
    LET z   == z0 + 719468
        era == z \div 146097
        doe == z - era * 146097
        yoe == (doe - doe \div 1460 + doe \div 36524 - doe \div 146096) \div 365
        doy == doe - (365 * yoe + yoe \div 4 - yoe \div 100)
        mp  == (5 * doy + 2) \div 153
        d   == doy - (153 * mp + 2) \div 5 + 1
        m   == IF mp < 10 THEN mp + 3 ELSE mp - 9
        y   == yoe + era * 400 + (IF m <= 2 THEN 1 ELSE 0)
    IN  [y |-> y, m |-> m, d |-> d]

\* Time zones of the server process: offsets from UTC in hours, and the UTC
\* hours between which daylight saving time is in force (2024)
UTC == [std |-> 0, dst |-> 0, from |-> 0, to |-> 0]
AsiaTokyo == [std |-> 9, dst |-> 9, from |-> 0, to |-> 0]
EuropeBerlin ==
    [std |-> 1, dst |-> 2,
     from |-> DaysFromCivil(2024, 3, 31) * HoursPerDay + 1,
     to   |-> DaysFromCivil(2024, 10, 27) * HoursPerDay + 1]
AmericaNewYork ==
    [std |-> -5, dst |-> -4,
     from |-> DaysFromCivil(2024, 3, 10) * HoursPerDay + 7,
     to   |-> DaysFromCivil(2024, 11, 3) * HoursPerDay + 6]

Zones == {UTC, AsiaTokyo, EuropeBerlin, AmericaNewYork}

\* LocalTZA(t, isUTC): the offset in force at UTC time t, or at local time t
\* (a local time skipped or repeated by a transition takes the offset in
\* force before the transition)
LocalTZA(t, isUTC, z) ==
    IF isUTC
    THEN IF z.from <= t /\ t < z.to THEN z.dst ELSE z.std
    ELSE IF z.from <= t - z.dst /\ t - z.dst < z.to THEN z.dst ELSE z.std

LocalTime(t, z) == t + LocalTZA(t, TRUE, z)

ToUTC(t, z) == t - LocalTZA(t, FALSE, z)

\* Date.prototype.getDate: the day of month in local time
GetDate(t, z) == CivilFromDays(LocalTime(t, z) \div HoursPerDay).d

\* Date.prototype.setDate: the same local month and time of day, on day of
\* month dt
SetDate(t, dt, z) ==
    LET local == LocalTime(t, z)
        c     == CivilFromDays(local \div HoursPerDay)
    IN  ToUTC(DaysFromCivil(c.y, c.m, dt) * HoursPerDay + (local % HoursPerDay),
              z)

\* cursor.toISOString().split("T")[0].replace(/-/g, ""): the UTC date
ToYmdToken(t) ==
    LET c == CivilFromDays(t \div HoursPerDay)
    IN  c.y * 10000 + c.m * 100 + c.d

\* The value of a date field of the form: absent (null), "", a string that
\* is no date, or "YYYY-MM-DD" as <input type="date"> submits it
NullDateStr == [kind |-> "null", y |-> 0, m |-> 0, d |-> 0]
EmptyDateStr == [kind |-> "empty", y |-> 0, m |-> 0, d |-> 0]
TextDateStr == [kind |-> "text", y |-> 0, m |-> 0, d |-> 0]
IsoDateStr(c) == [kind |-> "ymd", y |-> c.y, m |-> c.m, d |-> c.d]

\* value && !Number.isNaN(Date.parse(value))
IsValidDateStr(v) == v.kind = "ymd"

\* the decimal digits of n, at least width of them
RECURSIVE Digits(_, _)
Digits(n, width) ==
    LET units == <<"0", "1", "2", "3", "4", "5", "6", "7", "8", "9">>
    IN  IF n < 10 /\ width <= 1 THEN <<units[n + 1]>>
        ELSE Append(Digits(n \div 10, width - 1), units[(n % 10) + 1])

\* the value of an <input type="date">: "" or the year in four or more
\* digits, "-", the month, "-", the day
DateText(v) ==
    IF v.kind # "ymd" THEN <<>>
    ELSE Digits(v.y, 4) \o <<"-">> \o Digits(v.m, 2) \o <<"-">> \o Digits(v.d, 2)

\* the code unit of a character of a date value
CodeUnit(c) ==
    IF c = "-" THEN 45
    ELSE 47 + CHOOSE k \in 1..10 :
                  <<"0", "1", "2", "3", "4", "5", "6", "7", "8", "9">>[k] = c

\* a < b for strings: by the code units, a proper prefix first
RECURSIVE StringLess(_, _)
StringLess(a, b) ==
    IF b = <<>> THEN FALSE
    ELSE IF a = <<>> THEN TRUE
    ELSE IF CodeUnit(Head(a)) # CodeUnit(Head(b))
         THEN CodeUnit(Head(a)) < CodeUnit(Head(b))
    ELSE StringLess(Tail(a), Tail(b))

\* new Date("YYYY-MM-DD"): midnight UTC of that day
NewDate(v) == DaysFromCivil(v.y, v.m, v.d) * HoursPerDay

\* faulty variant: new Date(value) without the validity test (new Date(null) is the
\* epoch)
ParseStartDateUnchecked(v) == IF IsValidDateStr(v) THEN NewDate(v) ELSE 0

\* home.tsx:89-92
ParseStartDate(v) == IF IsValidDateStr(v) THEN NewDate(v) ELSE NullDate

\* faulty variant: an invalid end date is null instead of the start date
ParseEndDateNull(v, start) == IF IsValidDateStr(v) THEN NewDate(v) ELSE NullDate

\* home.tsx:93-96
ParseEndDate(v, start) == IF IsValidDateStr(v) THEN NewDate(v) ELSE start

\* faulty variant: while (cursor != endDate)
LoopCondNotEqual(c, e) == c # e

\* while (cursor <= endDate)
LoopCond(c, e) == c <= e

\* cursor.setDate(cursor.getDate() + 1)
NextCursor(c, z) == SetDate(c, GetDate(c, z) + 1, z)

-----------------------------------------------------------------------------
(* The response filter, home.tsx:157-194 *)

\* limit of a record whose limit is null
NoLimit == -1

\* faulty variant: the terms are compared as typed
NormalizeNot(keywords) == keywords

\* includeKeywords.map((kw) => kw.toLowerCase())
Normalize(keywords) == [i \in 1..Len(keywords) |-> ToLowerCase(keywords[i])]

\* !event.limit || event.limit > 10  (null and 0 are falsy)
LimitOk(limit) == limit = NoLimit \/ limit = 0 \/ limit > 10

\* faulty variant: the title is tested case-sensitively
passesBaseConditionsCaseSensitive(event) ==
    /\ event.open_status = "preopen"
    /\ Truthy(event.place)
    /\ ~RegexTestI(PlaceDenylist, event.place)
    /\ LimitOk(event.limit)
    /\ ~\E a \in TitleDenylist :
           Includes(IF event.title = NullStr THEN EmptyStr ELSE event.title, a)

passesBaseConditions(event) ==
    /\ event.open_status = "preopen"
    /\ Truthy(event.place)
    /\ ~RegexTestI(PlaceDenylist, event.place)
    /\ LimitOk(event.limit)
    /\ ~RegexTestI(TitleDenylist,
                   IF event.title = NullStr THEN EmptyStr ELSE event.title)

\* normalizedIncludes.length === 0 || normalizedIncludes.every(...)
MatchesIncludes(text, includes) ==
    \A i \in 1..Len(includes) : Includes(text, includes[i])

\* normalizedExcludes.every((keyword) => !searchableText.includes(keyword))
MatchesExcludes(text, excludes) ==
    \A i \in 1..Len(excludes) : ~Includes(text, excludes[i])

\* the callback of events.filter
KeepEvent(event, includes, excludes) ==
    IF ~passesBaseConditions(event) THEN FALSE
    ELSE IF Len(includes) = 0 /\ Len(excludes) = 0 THEN TRUE
    ELSE /\ MatchesIncludes(buildSearchableText(event), Normalize(includes))
         /\ MatchesExcludes(buildSearchableText(event), Normalize(excludes))

FilterEvents(events, includes, excludes) ==
    SelectSeq(events, LAMBDA e : KeepEvent(e, includes, excludes))

\* filteredEvents.forEach: event.description = stripHtmlTags(event.description)
Sanitize(events) ==
    [i \in 1..Len(events) |->
        [events[i] EXCEPT !.description = stripHtmlTags(events[i].description)]]

\* faulty variant: a record goes before the records of its own start time
RECURSIVE InsertByStartEarly(_, _)
InsertByStartEarly(sorted, e) ==
    IF sorted = <<>> THEN <<e>>
    ELSE IF sorted[Len(sorted)].started_at < e.started_at
         THEN Append(sorted, e)
         ELSE Append(InsertByStartEarly(SubSeq(sorted, 1, Len(sorted) - 1), e),
                     sorted[Len(sorted)])

\* Array.prototype.sort with (a, b) => a.started_at - b.started_at: stable
RECURSIVE InsertByStart(_, _)
InsertByStart(sorted, e) ==
    IF sorted = <<>> THEN <<e>>
    ELSE IF sorted[Len(sorted)].started_at <= e.started_at
         THEN Append(sorted, e)
         ELSE Append(InsertByStart(SubSeq(sorted, 1, Len(sorted) - 1), e),
                     sorted[Len(sorted)])

RECURSIVE SortByStart(_)
SortByStart(events) ==
    IF events = <<>> THEN <<>>
    ELSE InsertByStart(SortByStart(SubSeq(events, 1, Len(events) - 1)),
                       events[Len(events)])

-----------------------------------------------------------------------------
(* The map view EventMap and the event bus: pure parts *)

\* the values a record may carry as its lat or lon (EventListItem: any):
\* null, no such key, "", a string that is no number, a string that is a
\* number, a number, and a number too large for a double (JSON 1e999)
CoordNull == [kind |-> "null", v |-> 0]
CoordUndefined == [kind |-> "undefined", v |-> 0]
CoordEmpty == [kind |-> "empty", v |-> 0]
CoordText == [kind |-> "text", v |-> 0]
CoordInfinity == [kind |-> "infinity", v |-> 0]
CoordNumStr(v) == [kind |-> "numstr", v |-> v]
CoordNum(v) == [kind |-> "num", v |-> v]

\* Number(value): null and "" convert to 0, undefined and a string that is
\* no number to NaN
ToNumber(c) ==
    IF c.kind \in {"num", "numstr"} THEN [finite |-> TRUE, v |-> c.v]
    ELSE IF c.kind \in {"null", "empty"} THEN [finite |-> TRUE, v |-> 0]
    ELSE [finite |-> FALSE, v |-> 0]

\* part_001:111-122
geoEvents(events) ==
    LET hasGeo(e) == ToNumber(e.lat).finite /\ ToNumber(e.lon).finite
        kept == SelectSeq(events, hasGeo)
    IN  [i \in 1..Len(kept) |->
            [kept[i] EXCEPT !.lat = CoordNum(ToNumber(kept[i].lat).v),
                            !.lon = CoordNum(ToNumber(kept[i].lon).v)]]

\* [event.lat, event.lon] of a record of geoEvents
LatLng(e) == [lat |-> e.lat.v, lon |-> e.lon.v]

\* the two instances of the map view
Views == {1, 2}

NoPopup == 0

maxZoom == 18

ZoomLevels == 0..maxZoom

NoMap ==
    [live |-> FALSE, zoom |-> 0, center |-> [lat |-> 0, lon |-> 0],
     popup |-> NoPopup]

\* new globalThis.Map<number, any>()
EmptyLookup == [id \in {} |-> [lat |-> 0, lon |-> 0]]

NoTask ==
    [live |-> FALSE, geo |-> <<>>, justFinishedLoading |-> FALSE,
     full |-> FALSE]

\* the map sits on no surface: there is no map
NoSurface == "none"

\* neither surface carries a _leaflet_id
NoIds == [inline |-> FALSE, fullscreen |-> FALSE]

\* no render has resumed yet
NoRender ==
    [skipped |-> FALSE, destroyed |-> FALSE, created |-> FALSE,
     error |-> FALSE]

NoProps == [isLoading |-> FALSE, events |-> <<>>]

\* no event has been dispatched
NoDispatch ==
    [payload |-> [custom |-> FALSE, idType |-> "undefined", eventId |-> 0],
     log |-> <<>>]

\* part_001:320-327: markerEventMapRef.current.set(event.id, marker) for
\* each record in turn; a later record of the same id replaces the earlier
MarkerLookup(geo) ==
    [id \in {geo[i].id : i \in 1..Len(geo)} |->
        LatLng(geo[CHOOSE i \in 1..Len(geo) :
                       /\ geo[i].id = id
                       /\ \A j \in (i + 1)..Len(geo) : geo[j].id # id])]

Min2(a, b) == IF a < b THEN a ELSE b
Max2(a, b) == IF a > b THEN a ELSE b

RECURSIVE MinOf(_, _)
MinOf(f, n) == IF n = 1 THEN f[1] ELSE Min2(MinOf(f, n - 1), f[n])

RECURSIVE MaxOf(_, _)
MaxOf(f, n) == IF n = 1 THEN f[1] ELSE Max2(MaxOf(f, n - 1), f[n])

\* part_001:336-337: the centre of the bounds of the markers
BoundsCenter(geo) ==
    LET lats == [i \in 1..Len(geo) |-> geo[i].lat.v]
        lons == [i \in 1..Len(geo) |-> geo[i].lon.v]
    IN  [lat |-> (MinOf(lats, Len(geo)) + MaxOf(lats, Len(geo))) \div 2,
         lon |-> (MinOf(lons, Len(geo)) + MaxOf(lons, Len(geo))) \div 2]

\* Leaflet keeps the zoom of a view within the zoom range of the map
LimitZoom(z) == Max2(0, Min2(z, maxZoom))

\* faulty variant: the focus sets the floor itself
FocusZoomFixed(z) == 8

\* part_001:165: Math.max(mapRef.current.getZoom() ?? 5, 8)
FocusZoom(z) == Max2(z, 8)

\* faulty variant: an id without a marker focuses some marker of the map
focusMarkerByEventIdAny(map, lookup, eventId) ==
    IF ~map.live \/ DOMAIN lookup = {} THEN map
    ELSE LET id == IF eventId \in DOMAIN lookup THEN eventId
                   ELSE CHOOSE x \in DOMAIN lookup : TRUE
         IN  [live |-> TRUE, zoom |-> LimitZoom(FocusZoom(map.zoom)),
              center |-> lookup[id], popup |-> id]

\* part_001:152-175: setView on the marker of the id and openPopup
focusMarkerByEventId(map, lookup, eventId) ==
    IF ~map.live \/ eventId \notin DOMAIN lookup THEN map
    ELSE [live |-> TRUE, zoom |-> LimitZoom(FocusZoom(map.zoom)),
          center |-> lookup[eventId], popup |-> eventId]

\* new CustomEvent(MAP_FOCUS_MARKER_EVENT, {detail: {eventId}})
FocusPayload(eventId) ==
    [custom |-> TRUE, idType |-> "number", eventId |-> eventId]

\* part_001:178-189
handleFocusMarker(map, lookup, payload) ==
    IF ~payload.custom THEN map
    ELSE IF payload.idType # "number" THEN map
    ELSE focusMarkerByEventId(map, lookup, payload.eventId)

\* faulty variant: the listeners are called last first
RECURSIVE DispatchEventReversed(_, _, _, _, _)
DispatchEventReversed(ls, i, maps, lookups, payload) ==
    IF i > Len(ls) THEN [maps |-> maps, log |-> <<>>]
    ELSE LET v == ls[Len(ls) + 1 - i]
             next == [maps EXCEPT
                         ![v] = handleFocusMarker(maps[v], lookups[v], payload)]
             rest == DispatchEventReversed(ls, i + 1, next, lookups, payload)
         IN  [maps |-> rest.maps, log |-> <<v>> \o rest.log]

\* window.dispatchEvent (part_003:91-95): the listeners ls[i], ls[i+1], ...
\* are called one after the other before dispatchEvent returns; log is the
\* list of the views whose listener was called
RECURSIVE DispatchEvent(_, _, _, _, _)
DispatchEvent(ls, i, maps, lookups, payload) ==
    IF i > Len(ls) THEN [maps |-> maps, log |-> <<>>]
    ELSE LET v == ls[i]
             next == [maps EXCEPT
                         ![v] = handleFocusMarker(maps[v], lookups[v], payload)]
             rest == DispatchEvent(ls, i + 1, next, lookups, payload)
         IN  [maps |-> rest.maps, log |-> <<v>> \o rest.log]

\* faulty variant: the listener stays
KeepListener(ls, v) == ls

\* window.removeEventListener (part_001:193): the listener of view v goes
RemoveListener(ls, v) == SelectSeq(ls, LAMBDA x : x # v)

\* part_001:22-59: window.L is there ("loaded"), or leafletPromise is
\* pending ("loading") or rejected ("failed"), or the script is appended
ensureLeafletAssets(state) ==
    IF state = "unloaded" THEN "loading" ELSE state

\* faulty variant: no shared promise, a script for every call before the
\* load has completed
AppendedScriptsEach(state) == IF state \in {"unloaded", "loading"} THEN 1 ELSE 0

\* part_001:35-56: the script elements a call appends: one, when neither
\* window.L nor leafletPromise is there
AppendedScripts(state) == IF state = "unloaded" THEN 1 ELSE 0

\* part_001:364-430: what the view shows for the props p: the skeleton, the
\* message that no record has a location, or the surfaces of the map
Branch(p) ==
    IF p.isLoading THEN "skeleton"
    ELSE IF geoEvents(p.events) = <<>> THEN "message"
    ELSE "surface"

\* part_001:197-349, up to the await: the render that the effect starts for
\* props p when prevLoadingRef.current is prev and isFullScreenOpen is full
StartRender(p, prev, full) ==
    IF p.isLoading \/ geoEvents(p.events) = <<>> THEN NoTask
    ELSE [live |-> TRUE, geo |-> geoEvents(p.events),
          justFinishedLoading |-> prev, full |-> full]

\* part_001:67-76: the _leaflet_id of the container is deleted
resetLeafletContainer(id) == FALSE

\* part_001:103-109: the ids of the surfaces after the map on the surface
\* container is removed (Leaflet's remove deletes the id of its container)
\* and the inline surface is reset
DestroyedIds(ids, container) ==
    [inline |-> resetLeafletContainer(IF container = "inline" THEN FALSE
                                      ELSE ids.inline),
     fullscreen |-> IF container = "fullscreen" THEN FALSE
                    ELSE ids.fullscreen]

\* faulty variant: a completed load does not force a new map
RecreateOnMismatch(containerMismatch, forceRecreate) == containerMismatch

\* part_001:222-230
Recreate(containerMismatch, forceRecreate) ==
    containerMismatch \/ forceRecreate

\* faulty variant: a render whose effect was cleaned up goes on
SkipsNoContainer(isMounted, hasContainer) == ~hasContainer

\* part_001:218-220
Skips(isMounted, hasContainer) == ~isMounted \/ ~hasContainer

-----------------------------------------------------------------------------
(* The cards of the list and their highlight: pure parts *)

\* no card
NoCard == 0

\* a pending timer: the card element its callback removes the classes from
\* (still in the document or not)
Timer(eventId) == [eventId |-> eventId, attached |-> TRUE]

\* the cards leave the document (part_003:175): the timers keep the detached
\* elements
Detach(ts) == [i \in 1..Len(ts) |-> [ts[i] EXCEPT !.attached = FALSE]]

\* the selector of part_003:120
InteractiveTags == {"a", "button", "input", "textarea", "select"}

\* faulty variant: the callback of a timer spares the cards in the document
RemoveHighlightDetached(hl, t) == IF t.attached THEN hl ELSE hl \ {t.eventId}

\* faulty variant: element.matches, which looks at the target only
Matches(path, tags) == path # <<>> /\ path[1] \in tags

\* element.closest(selector): the target (path[1]) or one of its ancestors,
\* up to the card
Closest(path, tags) == \E i \in 1..Len(path) : path[i] \in tags

\* part_003:116-121; a click target is the path of tags from the target up
\* to the card, and is an HTMLElement
shouldIgnoreArticleClick(target) == Closest(target, InteractiveTags)

\* document.getElementById(`event-${eventId}`) instanceof HTMLElement, for
\* the cards that are in the document
HasCard(cards, eventId) == \E i \in 1..Len(cards) : cards[i].id = eventId

\* part_003:99-114 and part_001:145-149: the classes are added to the card
\* and a timer is set that removes them
AddHighlight(cards, hl, eventId) ==
    IF HasCard(cards, eventId) THEN hl \cup {eventId} ELSE hl

SetTimeout(cards, ts, eventId) ==
    IF HasCard(cards, eventId) THEN Append(ts, Timer(eventId)) ELSE ts

\* the callback of the timer t: classList.remove on its element
RemoveHighlight(hl, t) == IF t.attached THEN hl \ {t.eventId} ELSE hl

-----------------------------------------------------------------------------
(* The request handler `action`, home.tsx:84-207 *)

maxCount == 100

DefaultPrefectures == <<"tokyo">>

\* stands for the message of home.tsx:203
ErrorMessage == "Connpass API fetch failed"

NoErrorMessage == "undefined"

NoParams ==
    [count |-> 0, keyword |-> NullStr, ymd |-> <<>>, prefecture |-> <<>>]

NoFormValues ==
    [keyword |-> EmptyStr, startDate |-> EmptyDateStr,
     endDate |-> EmptyDateStr, prefectures |-> <<>>]

NoResponse ==
    [status |-> 0, events |-> <<>>, formValues |-> NoFormValues,
     errorMessage |-> NoErrorMessage]

\* useActionData() before the first submission has been answered
NoActionData == NoResponse

\* no fetch has been answered in this invocation
NoReply == [kind |-> "none", status |-> 0, events |-> <<>>]

\* response.ok, home.tsx:143
IsOk(status) == status >= 200 /\ status <= 299

\* the answers of the remote catalogue that make the try block throw: fetch
\* rejects (home.tsx:141), the status is not ok (home.tsx:143-147),
\* response.json() rejects (home.tsx:150)
FailedReply(kind, status, events) ==
    [kind |-> kind, status |-> status, events |-> events]

\* faulty variant: the records of the failed answer are passed on
FailureResponseLeaky(values, r) ==
    [status |-> 502, events |-> r.events, formValues |-> values,
     errorMessage |-> ErrorMessage]

\* home.tsx:198-206: the payload of the catch block; the answer r of the
\* remote catalogue is not looked at
FailureResponse(values, r) ==
    [status |-> 502, events |-> <<>>, formValues |-> values,
     errorMessage |-> ErrorMessage]

\* typeof rawKeyword === "string" ? rawKeyword : ""
KeywordInput(rawKeyword) == IF rawKeyword = NullStr THEN EmptyStr ELSE rawKeyword

\* startDateValue ?? ""
DateOrEmpty(v) == IF v = NullDateStr THEN EmptyDateStr ELSE v

\* home.tsx:101-109
MakeFormValues(f) ==
    [keyword |-> KeywordInput(f.keyword),
     startDate |-> DateOrEmpty(f.startDate),
     endDate |-> DateOrEmpty(f.endDate),
     prefectures |-> IF Len(f.prefectures) > 0 THEN f.prefectures
                     ELSE DefaultPrefectures]

\* faulty variant: params.set in the place of params.append, so that a
\* repeated name keeps its last value only
MakeParamsSet(includes, ymds, prefectures) ==
    [count |-> maxCount,
     keyword |-> IF Len(includes) > 0 THEN JoinSpace(includes) ELSE NullStr,
     ymd |-> IF Len(ymds) > 0 THEN <<ymds[Len(ymds)]>> ELSE <<>>,
     prefecture |-> IF Len(prefectures) > 0
                    THEN <<prefectures[Len(prefectures)]>> ELSE <<>>]

\* home.tsx:122-137; each field is what params.getAll (get) of that name gives
MakeParams(includes, ymds, prefectures) ==
    [count |-> maxCount,
     keyword |-> IF Len(includes) > 0 THEN JoinSpace(includes) ELSE NullStr,
     ymd |-> ymds,
     prefecture |-> prefectures]

Init ==
    /\ pc = "idle"
    /\ tz \in Zones
    /\ formData = [keyword |-> NullStr, startDate |-> NullDateStr,
                   endDate |-> NullDateStr, prefectures |-> <<>>]
    /\ startDate = NullDate
    /\ endDate = NullDate
    /\ includeKeywords = <<>>
    /\ excludeKeywords = <<>>
    /\ formValues = NoFormValues
    /\ cursor = NullDate
    /\ dates = <<>>
    /\ params = NoParams
    /\ fetched = <<>>
    /\ response = NoResponse
    /\ requests = 0
    /\ reply = NoReply
    /\ navigation = "idle"
    /\ actionData = NoActionData
    /\ mounted = [v \in Views |-> FALSE]
    /\ props = [v \in Views |-> NoProps]
    /\ mapRef = [v \in Views |-> NoMap]
    /\ markersLayerRef = [v \in Views |-> <<>>]
    /\ markerEventMapRef = [v \in Views |-> EmptyLookup]
    /\ prevLoadingRef = [v \in Views |-> FALSE]
    /\ renderTask = [v \in Views |-> NoTask]
    /\ leaflet = "unloaded"
    /\ listeners = <<>>
    /\ dispatched = NoDispatch
    /\ fieldStartDate = IsoDateStr([y |-> 2024, m |-> 1, d |-> 30])
    /\ fieldEndDate = IsoDateStr([y |-> 2024, m |-> 3, d |-> 1])
    /\ highlighted = {}
    /\ timers = <<>>
    /\ scrolledTo = NoCard
    /\ isFullScreenOpen = [v \in Views |-> FALSE]
    /\ mapContainer = [v \in Views |-> NoSurface]
    /\ leafletId = [v \in Views |-> NoIds]
    /\ instances = [v \in Views |-> 0]
    /\ staleTasks = [v \in Views |-> {}]
    /\ rendered = [v \in Views |-> NoRender]
    /\ scripts = 0

\* home.tsx:86-114: the form is read, the dates and the keyword are parsed
Submit(f) ==
    /\ pc = "idle"
    /\ pc' = "dates"
    /\ formData' = f
    /\ startDate' = ParseStartDate(f.startDate)
    /\ endDate' = ParseEndDate(f.endDate, ParseStartDate(f.startDate))
    /\ includeKeywords' = parseKeywordInput(KeywordInput(f.keyword)).includeKeywords
    /\ excludeKeywords' = parseKeywordInput(KeywordInput(f.keyword)).excludeKeywords
    /\ formValues' = MakeFormValues(f)
    /\ cursor' = IF startDate' # NullDate /\ endDate' # NullDate
                 THEN startDate' ELSE NullDate
    /\ dates' = <<>>
    /\ params' = NoParams
    /\ fetched' = <<>>
    /\ response' = NoResponse
    /\ requests' = 0
    /\ reply' = NoReply
    /\ navigation' = "submitting"
    /\ highlighted' = {}
    /\ timers' = Detach(timers)
    /\ UNCHANGED <<tz, actionData, viewVars, formVars, scrolledTo, surfaceVars>>

\* whether the body of the while loop runs once more
LoopRuns == cursor # NullDate /\ LoopCond(cursor, endDate)

\* home.tsx:115-118: one pass of the loop
DateStep ==
    /\ pc = "dates"
    /\ LoopRuns
    /\ Len(dates) < MaxTokens
    /\ dates' = Append(dates, ToYmdToken(cursor))
    /\ cursor' = NextCursor(cursor, tz)
    /\ UNCHANGED <<pc, tz, formData, startDate, endDate, includeKeywords,
                   excludeKeywords, formValues, params, fetched, response,
                   requests, reply, pageVars, viewVars, formVars, cardVars, surfaceVars>>

\* home.tsx:121-148: the query is assembled and the request is issued
BuildQuery ==
    /\ pc = "dates"
    /\ ~LoopRuns
    /\ params' = MakeParams(includeKeywords, dates, formData.prefectures)
    /\ requests' = requests + 1
    /\ pc' = "fetching"
    /\ UNCHANGED <<tz, formData, startDate, endDate, includeKeywords,
                   excludeKeywords, formValues, cursor, dates, fetched,
                   response, reply, pageVars, viewVars, formVars, cardVars, surfaceVars>>

\* home.tsx:150-197: the fetch succeeded with `events` (result.events ?? [])
FetchOk(events) ==
    /\ pc = "fetching"
    /\ fetched' = events
    /\ response' =
         [status |-> 200,
          events |-> SortByStart(Sanitize(
                         FilterEvents(events, includeKeywords, excludeKeywords))),
          formValues |-> formValues,
          errorMessage |-> NoErrorMessage]
    /\ reply' = [kind |-> "ok", status |-> 200, events |-> events]
    /\ pc' = "done"
    /\ UNCHANGED <<tz, formData, startDate, endDate, includeKeywords,
                   excludeKeywords, formValues, cursor, dates, params,
                   requests, pageVars, viewVars, formVars, cardVars, surfaceVars>>

\* faulty variant: the catch block issues the request once more
FetchFailRetry(r) ==
    /\ pc = "fetching"
    /\ r.kind = "network" \/ ~IsOk(r.status) \/ r.kind = "json"
    /\ requests < 2
    /\ requests' = requests + 1
    /\ reply' = r
    /\ UNCHANGED <<pc, tz, formData, startDate, endDate, includeKeywords,
                   excludeKeywords, formValues, cursor, dates, params, fetched,
                   response, pageVars, viewVars, formVars, cardVars, surfaceVars>>

\* home.tsx:139-155, 198-206: the try block throws on the answer r (a
\* network error, a status that is not ok, a body that is no JSON) and the
\* catch block answers
FetchFail(r) ==
    /\ pc = "fetching"
    /\ r.kind = "network" \/ ~IsOk(r.status) \/ r.kind = "json"
    /\ reply' = r
    /\ response' = FailureResponse(formValues, r)
    /\ pc' = "done"
    /\ UNCHANGED <<tz, formData, startDate, endDate, includeKeywords,
                   excludeKeywords, formValues, cursor, dates, params, fetched,
                   requests, pageVars, viewVars, formVars, cardVars, surfaceVars>>

\* home.tsx:197, 205: the handler returns its Response and its invocation
\* ends; the page gets the payload as its action data (home.tsx:210) and its
\* navigation is idle again (home.tsx:211, 216)
Return ==
    /\ pc = "done"
    /\ pc' = "idle"
    /\ formData' = [keyword |-> NullStr, startDate |-> NullDateStr,
                    endDate |-> NullDateStr, prefectures |-> <<>>]
    /\ startDate' = NullDate
    /\ endDate' = NullDate
    /\ includeKeywords' = <<>>
    /\ excludeKeywords' = <<>>
    /\ formValues' = NoFormValues
    /\ cursor' = NullDate
    /\ dates' = <<>>
    /\ params' = NoParams
    /\ fetched' = <<>>
    /\ response' = NoResponse
    /\ reply' = NoReply
    /\ actionData' = response
    /\ navigation' = "idle"
    /\ UNCHANGED <<tz, requests, viewVars, formVars, cardVars, surfaceVars>>

\* the first submission of a page that has no action data yet
FirstSubmit(f) == actionData = NoActionData /\ Submit(f)

-----------------------------------------------------------------------------
(* The map view EventMap and the event bus: steps *)

\* home.tsx:215-216
ShouldShowList == navigation = "submitting" \/ actionData # NoActionData

\* home.tsx:212, 215, 230: the props the page hands to its map view
PageProps ==
    [isLoading |-> navigation = "submitting",
     events |-> IF actionData = NoActionData THEN <<>> ELSE actionData.events]

\* part_003:175-240: the cards of the list, one per record of the result
ListCards ==
    IF navigation = "submitting" THEN <<>>
    ELSE IF actionData = NoActionData THEN <<>>
    ELSE IF actionData.errorMessage # NoErrorMessage THEN <<>>
    ELSE actionData.events

\* the map of view v, as a record of what a render or a destroy leaves
MapState(v) ==
    [map |-> mapRef[v], markers |-> markersLayerRef[v],
     lookup |-> markerEventMapRef[v], container |-> mapContainer[v],
     ids |-> leafletId[v], instances |-> instances[v]]

\* faulty variant: the reference to the map is dropped, the map is not
\* removed
DestroyedLeaky(v) ==
    [map |-> NoMap, markers |-> <<>>, lookup |-> EmptyLookup,
     container |-> NoSurface,
     ids |-> DestroyedIds(leafletId[v], mapContainer[v]),
     instances |-> instances[v]]

\* part_001:103-109: destroyEventMapInstance of view v
Destroyed(v) ==
    [map |-> NoMap, markers |-> <<>>, lookup |-> EmptyLookup,
     container |-> NoSurface,
     ids |-> DestroyedIds(leafletId[v], mapContainer[v]),
     instances |-> IF mapRef[v].live THEN instances[v] - 1 ELSE instances[v]]

\* view v takes the map state m
SetMapState(v, m) ==
    /\ mapRef' = [mapRef EXCEPT ![v] = m.map]
    /\ markersLayerRef' = [markersLayerRef EXCEPT ![v] = m.markers]
    /\ markerEventMapRef' = [markerEventMapRef EXCEPT ![v] = m.lookup]
    /\ mapContainer' = [mapContainer EXCEPT ![v] = m.container]
    /\ leafletId' = [leafletId EXCEPT ![v] = m.ids]
    /\ instances' = [instances EXCEPT ![v] = m.instances]

\* the commit that shows props p with isFullScreenOpen full to view v: the
\* surfaces that leave the document take their ids along; the inline surface
\* is one element as long as the view shows the skeleton or the map
\* (part_001:364-430: the second child of the section is a div in both), the
\* full-screen surface is there while the dialog is shown
Committed(v, p, full) ==
    LET dialog == Branch(p) = "surface" /\ full
        dialogBefore == Branch(props[v]) = "surface" /\ isFullScreenOpen[v]
    IN  [MapState(v) EXCEPT
            !.container =
                IF @ = "fullscreen" /\ ~(dialog /\ dialogBefore)
                THEN "gone" ELSE @,
            !.ids = [inline |-> IF Branch(p) = "message" THEN FALSE
                                ELSE @.inline,
                     fullscreen |-> dialog /\ dialogBefore /\ @.fullscreen]]

\* the effects of part_001:197-356 for the props p of a commit of view v:
\* the render of the last commit is cleaned up, and a render is started
\* unless the view is loading or has nothing to plot (in which case, once
\* loaded, the map is destroyed)
RunEffects(v, p, prev, full) ==
    /\ renderTask' = [renderTask EXCEPT ![v] = StartRender(p, prev, full)]
    /\ staleTasks' = [staleTasks EXCEPT ![v] =
                         IF renderTask[v].live THEN @ \cup {renderTask[v]}
                         ELSE @]
    /\ leaflet' = IF StartRender(p, prev, full).live
                  THEN ensureLeafletAssets(leaflet) ELSE leaflet
    /\ scripts' = IF StartRender(p, prev, full).live
                  THEN scripts + AppendedScripts(leaflet) ELSE scripts
    /\ IF ~p.isLoading /\ geoEvents(p.events) = <<>>
       THEN SetMapState(v, [Destroyed(v) EXCEPT !.ids = NoIds])
       ELSE SetMapState(v, Committed(v, p, full))

\* the page shows its map view (home.tsx:226-231): a fresh instance runs
\* its effects, the listener of part_001:191 among them
Mount(v) ==
    /\ ~mounted[v]
    /\ ShouldShowList
    /\ mounted' = [mounted EXCEPT ![v] = TRUE]
    /\ props' = [props EXCEPT ![v] = PageProps]
    /\ listeners' = Append(listeners, v)
    /\ prevLoadingRef' = [prevLoadingRef EXCEPT ![v] = FALSE]
    /\ isFullScreenOpen' = [isFullScreenOpen EXCEPT ![v] = FALSE]
    /\ RunEffects(v, PageProps, FALSE, FALSE)
    /\ UNCHANGED <<handlerVars, pageVars, formVars, cardVars, dispatched,
                   rendered>>

\* the page renders the view with other props: the cleanup of the render
\* effect (part_001:343-346) and then the effects again
Rerender(v) ==
    /\ mounted[v]
    /\ props[v] # PageProps
    /\ props' = [props EXCEPT ![v] = PageProps]
    /\ prevLoadingRef' = [prevLoadingRef EXCEPT ![v] = props[v].isLoading]
    /\ RunEffects(v, PageProps, props[v].isLoading, isFullScreenOpen[v])
    /\ UNCHANGED <<handlerVars, pageVars, formVars, cardVars, mounted,
                   listeners, dispatched, isFullScreenOpen, rendered>>

\* the user opens the full-screen dialog (part_001:388) or closes it by a
\* click on its backdrop (part_001:408); the view renders again with its
\* props, the render effect is cleaned up and runs again
ToggleFullScreen(v) ==
    /\ mounted[v]
    /\ Branch(props[v]) = "surface"
    /\ isFullScreenOpen' = [isFullScreenOpen EXCEPT ![v] = ~@]
    /\ prevLoadingRef' = [prevLoadingRef EXCEPT ![v] = props[v].isLoading]
    /\ RunEffects(v, props[v], props[v].isLoading, ~isFullScreenOpen[v])
    /\ UNCHANGED <<handlerVars, pageVars, formVars, cardVars, mounted, props,
                   listeners, dispatched, rendered>>

\* the view leaves the page: every cleanup runs (part_001:193, 343-346,
\* 358-362)
Unmount(v) ==
    /\ mounted[v]
    /\ mounted' = [mounted EXCEPT ![v] = FALSE]
    /\ props' = [props EXCEPT ![v] = NoProps]
    /\ listeners' = RemoveListener(listeners, v)
    /\ prevLoadingRef' = [prevLoadingRef EXCEPT ![v] = FALSE]
    /\ renderTask' = [renderTask EXCEPT ![v] = NoTask]
    /\ staleTasks' = [staleTasks EXCEPT ![v] =
                         IF renderTask[v].live THEN @ \cup {renderTask[v]}
                         ELSE @]
    /\ SetMapState(v, [Destroyed(v) EXCEPT !.ids = NoIds])
    /\ isFullScreenOpen' = [isFullScreenOpen EXCEPT ![v] = FALSE]
    /\ UNCHANGED <<handlerVars, pageVars, formVars, cardVars, leaflet,
                   dispatched, rendered, scripts>>

\* the script of Leaflet has loaded (part_001:53)
LeafletLoad ==
    /\ leaflet = "loading"
    /\ leaflet' = "loaded"
    /\ UNCHANGED <<handlerVars, pageVars, formVars, cardVars, surfaceVars,
                   mounted, props, mapRef,
                   markersLayerRef, markerEventMapRef, prevLoadingRef,
                   renderTask, listeners, dispatched>>

\* the script of Leaflet failed to load (part_001:54)
LeafletError ==
    /\ leaflet = "loading"
    /\ leaflet' = "failed"
    /\ UNCHANGED <<handlerVars, pageVars, formVars, cardVars, surfaceVars,
                   mounted, props, mapRef,
                   markersLayerRef, markerEventMapRef, prevLoadingRef,
                   renderTask, listeners, dispatched>>

\* part_001:214-338, after the await, for the render task of view v whose
\* effect is still in place (isMounted) or not: what the render leaves of
\* the map and what it did.  The render returns when its effect was cleaned
\* up or its surface is not there; it destroys the map when the map sits on
\* another surface or a load has just finished; it creates the map, on the
\* surface whose id it has reset, when there is none (L.map throws on a
\* surface that carries an id); then the map carries one marker per record
\* of geoEvents and no open popup, and its view is the one marker at zoom
\* 12 or the bounds of the markers at the zoom z that fits them
renderEventMap(v, task, isMounted, z) ==
    LET cur == IF task.full THEN "fullscreen" ELSE "inline"
        hasContainer ==
            /\ mounted[v]
            /\ Branch(props[v]) = "surface"
            /\ task.full => isFullScreenOpen[v]
        containerMismatch == mapRef[v].live /\ mapContainer[v] # cur
        forceRecreate == task.justFinishedLoading /\ mapRef[v].live
        destroyed == Recreate(containerMismatch, forceRecreate)
        m1 == IF destroyed THEN Destroyed(v) ELSE MapState(v)
        create == ~m1.map.live
        ids2 == IF create
                THEN [m1.ids EXCEPT ![cur] = resetLeafletContainer(@)]
                ELSE m1.ids
        geo == task.geo
    IN  IF Skips(isMounted, hasContainer)
        THEN [state |-> MapState(v),
              did |-> [NoRender EXCEPT !.skipped = TRUE]]
        ELSE IF create /\ ids2[cur]
        THEN [state |-> [m1 EXCEPT !.ids = ids2],
              did |-> [NoRender EXCEPT !.destroyed = destroyed,
                                       !.error = TRUE]]
        ELSE [state |->
                 [map |-> IF Len(geo) = 1
                          THEN [live |-> TRUE, zoom |-> LimitZoom(12),
                                center |-> LatLng(geo[1]),
                                popup |-> NoPopup]
                          ELSE [live |-> TRUE, zoom |-> LimitZoom(z),
                                center |-> BoundsCenter(geo),
                                popup |-> NoPopup],
                  markers |-> geo,
                  lookup |-> MarkerLookup(geo),
                  container |-> cur,
                  ids |-> [ids2 EXCEPT ![cur] = TRUE],
                  instances |-> IF create THEN m1.instances + 1
                                ELSE m1.instances],
              did |-> [NoRender EXCEPT !.destroyed = destroyed,
                                       !.created = create]]

\* the render of the last commit of view v resumes with Leaflet
RenderResume(v, z) ==
    /\ renderTask[v].live
    /\ leaflet = "loaded"
    /\ SetMapState(v, renderEventMap(v, renderTask[v], TRUE, z).state)
    /\ rendered' = [rendered EXCEPT
                       ![v] = renderEventMap(v, renderTask[v], TRUE, z).did]
    /\ renderTask' = [renderTask EXCEPT ![v] = NoTask]
    /\ UNCHANGED <<handlerVars, pageVars, formVars, cardVars, mounted, props,
                   prevLoadingRef, leaflet, listeners, dispatched,
                   isFullScreenOpen, staleTasks, scripts>>

\* part_001:339-341: the await rejects, the error is logged
RenderFail(v) ==
    /\ renderTask[v].live
    /\ leaflet = "failed"
    /\ renderTask' = [renderTask EXCEPT ![v] = NoTask]
    /\ rendered' = [rendered EXCEPT ![v] = [NoRender EXCEPT !.error = TRUE]]
    /\ UNCHANGED <<handlerVars, pageVars, formVars, cardVars, mounted, props,
                   mapRef, markersLayerRef, markerEventMapRef, prevLoadingRef,
                   leaflet, listeners, dispatched, isFullScreenOpen,
                   mapContainer, leafletId, instances, staleTasks, scripts>>

\* a render of view v whose effect was cleaned up resumes, with Leaflet or
\* with the error of its load
StaleResume(v, z) ==
    /\ leaflet \in {"loaded", "failed"}
    /\ \E task \in staleTasks[v] :
          /\ staleTasks' = [staleTasks EXCEPT ![v] = @ \ {task}]
          /\ IF leaflet = "failed"
             THEN /\ SetMapState(v, MapState(v))
                  /\ rendered' = [rendered EXCEPT
                                     ![v] = [NoRender EXCEPT !.error = TRUE]]
             ELSE /\ SetMapState(v, renderEventMap(v, task, FALSE, z).state)
                  /\ rendered' =
                        [rendered EXCEPT
                            ![v] = renderEventMap(v, task, FALSE, z).did]
    /\ UNCHANGED <<handlerVars, pageVars, formVars, cardVars, mounted, props,
                   prevLoadingRef, renderTask, leaflet, listeners, dispatched,
                   isFullScreenOpen, scripts>>

\* the user zooms the map (zoomControl, part_001:237)
UserZoom(v, z) ==
    /\ mapRef[v].live
    /\ z # mapRef[v].zoom
    /\ mapRef' = [mapRef EXCEPT ![v].zoom = LimitZoom(z)]
    /\ UNCHANGED <<handlerVars, pageVars, formVars, cardVars, surfaceVars,
                   mounted, props, markersLayerRef,
                   markerEventMapRef, prevLoadingRef, renderTask, leaflet,
                   listeners, dispatched>>

\* an event of the name MAP_FOCUS_MARKER_EVENT is dispatched on window
\* (part_003:87-97, or any other script of the page)
Publish(payload) ==
    /\ mapRef' =
          DispatchEvent(listeners, 1, mapRef, markerEventMapRef, payload).maps
    /\ dispatched' =
          [payload |-> payload,
           log |-> DispatchEvent(listeners, 1, mapRef, markerEventMapRef,
                                 payload).log]
    /\ UNCHANGED <<handlerVars, pageVars, formVars, cardVars, surfaceVars,
                   mounted, props, markersLayerRef,
                   markerEventMapRef, prevLoadingRef, renderTask, leaflet,
                   listeners>>

-----------------------------------------------------------------------------
(* The search form EventSearch: the date fields *)

\* EventSearch.tsx:115-121
handleStartDateChange(value) ==
    /\ fieldStartDate' = value
    /\ fieldEndDate' = IF StringLess(DateText(fieldEndDate), DateText(value))
                       THEN value ELSE fieldEndDate
    /\ UNCHANGED <<handlerVars, pageVars, viewVars, cardVars, surfaceVars>>

\* EventSearch.tsx:122-128
handleEndDateChange(value) ==
    /\ fieldEndDate' = value
    /\ fieldStartDate' = IF StringLess(DateText(value), DateText(fieldStartDate))
                         THEN value ELSE fieldStartDate
    /\ UNCHANGED <<handlerVars, pageVars, viewVars, cardVars, surfaceVars>>

-----------------------------------------------------------------------------
(* The cards of the list and the markers: clicks and timers *)

\* part_003:123-133: a click on the card of the record eventId, on target
handleArticleClick(eventId, target) ==
    /\ HasCard(ListCards, eventId)
    /\ Len(timers) < MaxTimers
    /\ IF shouldIgnoreArticleClick(target)
       THEN UNCHANGED <<mapRef, dispatched, highlighted, timers>>
       ELSE /\ mapRef' =
                  DispatchEvent(listeners, 1, mapRef, markerEventMapRef,
                                FocusPayload(eventId)).maps
            /\ dispatched' =
                  [payload |-> FocusPayload(eventId),
                   log |-> DispatchEvent(listeners, 1, mapRef,
                                         markerEventMapRef,
                                         FocusPayload(eventId)).log]
            /\ highlighted' = AddHighlight(ListCards, highlighted, eventId)
            /\ timers' = SetTimeout(ListCards, timers, eventId)
    /\ UNCHANGED <<handlerVars, pageVars, formVars, mounted, props,
                   markersLayerRef, markerEventMapRef, prevLoadingRef,
                   renderTask, leaflet, listeners, scrolledTo, surfaceVars>>

\* whether the map of view v shows a marker of the record eventId
HasMarker(v, eventId) ==
    /\ mounted[v]
    /\ props[v] = PageProps
    /\ ~props[v].isLoading
    /\ mapRef[v].live
    /\ \E i \in 1..Len(markersLayerRef[v]) : markersLayerRef[v][i].id = eventId

\* part_001:320-324: a click on the marker of the record eventId; Leaflet
\* opens the popup bound to the marker (or closes it when it is open), and
\* the handler runs scrollToEventArticle (part_001:124-150)
MarkerClick(v, eventId) ==
    /\ HasMarker(v, eventId)
    /\ Len(timers) < MaxTimers
    /\ mapRef' = [mapRef EXCEPT ![v].popup =
                     IF mapRef[v].popup = eventId THEN NoPopup ELSE eventId]
    /\ scrolledTo' = IF HasCard(ListCards, eventId) THEN eventId
                     ELSE scrolledTo
    /\ highlighted' = AddHighlight(ListCards, highlighted, eventId)
    /\ timers' = SetTimeout(ListCards, timers, eventId)
    /\ UNCHANGED <<handlerVars, pageVars, formVars, mounted, props,
                   markersLayerRef, markerEventMapRef, prevLoadingRef,
                   renderTask, leaflet, listeners, dispatched, surfaceVars>>

\* the oldest timer fires, 1800 ms after it was set (every timer has the
\* same delay, so they fire in the order they were set)
TimerFires ==
    /\ timers # <<>>
    /\ highlighted' = RemoveHighlight(highlighted, Head(timers))
    /\ timers' = Tail(timers)
    /\ UNCHANGED <<handlerVars, pageVars, viewVars, formVars, scrolledTo, surfaceVars>>

-----------------------------------------------------------------------------
(* Inputs *)

\* every string of at most n characters of alphabet
RECURSIVE StringsUpTo(_, _)
StringsUpTo(alphabet, n) ==
    IF n = 0 THEN {<<>>}
    ELSE StringsUpTo(alphabet, n - 1) \cup
         {Append(s, c) : s \in StringsUpTo(alphabet, n - 1), c \in alphabet}

KwAlphabet == {"a", "B", "-", " ", "\t"}

SampleKeywords ==
    {EmptyStr, <<"g", "o">>, <<"G", "o", " ", "-", "T", "O", "K", "Y", "O">>, <<"r", "u", "s", "t", " ", "-", "b", "e", "g", "i", "n", "n", "e", "r">>, <<"-", "f", "o", "o", " ", "b", "a", "r", " ", "-">>,
     <<"G", "O", " ", " ", "R", "u", "s", "t">>, <<"-", "G", "o">>}

KeywordInputs ==
    StringsUpTo(KwAlphabet, MaxKwLen) \cup SampleKeywords \cup {NullStr}

\* the first days of the two windows the date inputs are drawn from: one
\* crosses the end of January, one the end of March (and the start of
\* daylight saving time in Europe/Berlin)
WindowStarts == {DaysFromCivil(2024, 1, 29), DaysFromCivil(2024, 3, 29)}

DateInputs ==
    {NullDateStr, EmptyDateStr, TextDateStr} \cup
    {IsoDateStr(CivilFromDays(w + k)) : w \in WindowStarts, k \in 0..MaxSpan}

Jan30 == IsoDateStr([y |-> 2024, m |-> 1, d |-> 30])
Feb01 == IsoDateStr([y |-> 2024, m |-> 2, d |-> 1])

PrefectureInputs == {<<>>, <<"tokyo">>, <<"chiba", "tokyo">>}

MakeForm(k, s, e, p) ==
    [keyword |-> k, startDate |-> s, endDate |-> e, prefectures |-> p]

\* records of the remote catalogue
MakeEvent(id, title, place, address, description, limit, status, start) ==
    [id |-> id, title |-> title, place |-> place, address |-> address,
     description |-> description, limit |-> limit, open_status |-> status,
     started_at |-> start, lat |-> CoordNull, lon |-> CoordNull]

\* the record e with these coordinates
WithCoords(e, lat, lon) == [e EXCEPT !.lat = lat, !.lon = lon]

Titles == {NullStr, <<"G", "o", " ", "C", "o", "n", "f", "e", "r", "e", "n", "c", "e">>, <<"C", "o", "d", "e", "r", "D", "o", "j", "o", " ", "G", "o">>, <<"G", "o", "u3082", "u304f", "u3082", "u304f", "u4f1a">>}
Places == {NullStr, EmptyStr, <<"H", "a", "l", "l">>, <<"O", "N", "L", "I", "N", "E">>, <<"u30aa", "u30f3", "u30e9", "u30a4", "u30f3">>}
Addresses == {NullStr, <<"O", "s", "a", "k", "a">>, <<"T", "o", "k", "y", "o">>}
Descriptions == {NullStr, <<"R", "<", "i", ">", "u", "s", "<", "/", "i", ">", "t">>, <<"<", "g", "o", ">", "x", " ", "<", "t", "o", "k", "y", "o">>}
Limits == {NoLimit} \cup 0..MaxLimit
Statuses == {"preopen", "open"}

EventInputs ==
    {MakeEvent(1, t, p, a, d, l, s, 5) :
        t \in Titles, p \in Places, a \in Addresses, d \in Descriptions,
        l \in Limits, s \in Statuses}

\* the three records of the end-to-end example, and records with equal
\* start times
RustMeetup ==
    MakeEvent(1, <<"R", "u", "s", "t", " ", "M", "e", "e", "t", "u", "p">>, <<"H", "a", "l", "l">>, <<"T", "o", "k", "y", "o">>, <<"<", "p", ">", "R", "u", "s", "t", "<", "/", "p", ">">>, 50,
              "preopen", 7)
RustBeginner ==
    MakeEvent(2, <<"R", "u", "s", "t">>, <<"H", "a", "l", "l">>, <<"T", "o", "k", "y", "o">>, <<"f", "o", "r", " ", "<", "b", ">", "B", "e", "g", "i", "n", "n", "e", "r", "<", "/", "b", ">">>, 50,
              "preopen", 5)
RustSmall ==
    MakeEvent(3, <<"R", "u", "s", "t">>, <<"H", "a", "l", "l">>, <<"T", "o", "k", "y", "o">>, NullStr, 10, "preopen", 5)
RustEarly ==
    MakeEvent(4, <<"r", "u", "s", "t">>, <<"H", "a", "l", "l">>, NullStr, NullStr, NoLimit, "preopen", 5)
RustTie ==
    MakeEvent(5, <<"R", "U", "S", "T">>, <<"H", "a", "l", "l">>, NullStr, NullStr, 11, "preopen", 7)

SampleBodies ==
    {<<>>, <<RustMeetup, RustBeginner, RustSmall>>,
     <<RustMeetup, RustTie, RustEarly>>, <<RustTie, RustEarly, RustMeetup>>}

\* answers on which the handler fails: no answer at all, an answer whose
\* status is not ok (its body may well hold records), a body that is no JSON
FailedReplies ==
    {FailedReply("network", 0, <<>>), FailedReply("json", 200, <<>>)} \cup
    {FailedReply("status", st, b) :
        st \in {404, 500}, b \in {<<>>, <<RustMeetup, RustBeginner>>}}

\* every order of four records, two starting at 5 and two at 7
PermutedRecords == {RustMeetup, RustBeginner, RustEarly, RustTie}

PermutedBodies ==
    {<<a, b, c, e>> : a \in PermutedRecords, b \in PermutedRecords,
                      c \in PermutedRecords, e \in PermutedRecords} \cap
    {body \in Seq(PermutedRecords) :
        \A i \in 1..Len(body) : \A j \in 1..Len(body) :
            body[i] = body[j] => i = j}

\* every short description over "<", ">" and a letter
MarkupBodies ==
    {<<MakeEvent(1, <<"G", "o">>, <<"H", "a", "l", "l">>, NullStr, d, NoLimit, "preopen", 5)>> :
        d \in StringsUpTo({"<", ">", "a"}, MaxDescLen)}

FilterBodies ==
    SampleBodies \cup {<<e>> : e \in EventInputs} \cup PermutedBodies
        \cup MarkupBodies

\* records for the map: eligible for every keyword
Venue(id) ==
    MakeEvent(id, <<"G", "o">>, <<"H", "a", "l", "l">>, NullStr, NullStr, NoLimit, "preopen", 5)

CoordInputs ==
    {CoordNull, CoordUndefined, CoordEmpty, CoordText, CoordInfinity,
     CoordNumStr(35), CoordNum(35), CoordNum(0)}

VenueTokyo == WithCoords(Venue(1), CoordNum(35), CoordNum(139))
VenueSapporo == WithCoords(Venue(2), CoordNum(43), CoordNumStr(141))
VenueNowhere == WithCoords(Venue(3), CoordUndefined, CoordUndefined)

\* one record with every pair of coordinate values, and a mixed result
CoordBodies ==
    {<<WithCoords(Venue(1), la, lo)>> : la \in CoordInputs, lo \in CoordInputs}
        \cup {<<VenueTokyo, VenueNowhere, VenueSapporo>>}

MapBodies == {<<>>, <<VenueTokyo>>, <<VenueTokyo, VenueNowhere, VenueSapporo>>}

\* events of that name with an id that has a marker (1, 2), that has none
\* (3, 9), that is a string, without a detail, and one that is no CustomEvent
Payloads ==
    {FocusPayload(id) : id \in {1, 2, 3, 9}} \cup
    {[custom |-> TRUE, idType |-> "string", eventId |-> 1],
     [custom |-> TRUE, idType |-> "undefined", eventId |-> 0],
     [custom |-> FALSE, idType |-> "undefined", eventId |-> 0]}

\* what a date field may be set to: nothing, the days of the windows, and
\* days of a year of five digits
FieldDates ==
    {EmptyDateStr} \cup
    {IsoDateStr(CivilFromDays(w + k)) : w \in WindowStarts, k \in 0..MaxSpan}
    \cup {IsoDateStr([y |-> 10000, m |-> 1, d |-> k]) : k \in 1..3}

MapForm == MakeForm(NullStr, Jan30, NullDateStr, <<"tokyo">>)

-----------------------------------------------------------------------------
(* Specifications *)

\* the response filter: sample keywords against every record
FilterForms ==
    {MakeForm(k, Jan30, Feb01, <<"tokyo">>) : k \in SampleKeywords}

Next ==
    \/ \E f \in FilterForms : FirstSubmit(f)
    \/ DateStep
    \/ BuildQuery
    \/ \E b \in FilterBodies : FetchOk(b)
    \/ \E r \in FailedReplies : FetchFail(r)
    \/ Return

\* the server runs in Japan
InitTokyo == Init /\ tz = AsiaTokyo

Spec == InitTokyo /\ [][Next]_vars

\* the keyword parser and the query: every short keyword, every region list
QueryForms ==
    {MakeForm(k, Jan30, NullDateStr, p) :
        k \in KeywordInputs, p \in PrefectureInputs} \cup
    {MakeForm(<<"g", "o">>, s, Feb01, p) :
        s \in {Jan30, NullDateStr}, p \in PrefectureInputs}

NextQuery ==
    \/ \E f \in QueryForms : FirstSubmit(f)
    \/ DateStep
    \/ BuildQuery
    \/ \E b \in SampleBodies : FetchOk(b)
    \/ \E r \in FailedReplies : FetchFail(r)
    \/ Return

SpecQuery == InitTokyo /\ [][NextQuery]_vars

\* the date range: every pair of date inputs, in every time zone
DateForms ==
    {MakeForm(<<"g", "o">>, s, e, <<"tokyo">>) : s \in DateInputs, e \in DateInputs}

NextDates ==
    \/ \E f \in DateForms : FirstSubmit(f)
    \/ DateStep
    \/ BuildQuery
    \/ \E b \in SampleBodies : FetchOk(b)
    \/ \E r \in FailedReplies : FetchFail(r)
    \/ Return

SpecDates == Init /\ [][NextDates]_vars

\* the loop of home.tsx:115 runs to its end without a suspension point, and
\* the handler goes on to the fetch
FairSpecDates ==
    SpecDates /\ WF_vars(DateStep) /\ WF_vars(BuildQuery)

\* one submission after the other, each answered or failed
CycleForms ==
    {MakeForm(<<"r", "u", "s", "t", " ", "-", "b", "e", "g", "i", "n", "n", "e", "r">>, Jan30, Feb01, <<"tokyo">>),
     MakeForm(NullStr, NullDateStr, NullDateStr, <<>>)}

NextCycle ==
    \/ \E f \in CycleForms : Submit(f)
    \/ DateStep
    \/ BuildQuery
    \/ \E b \in SampleBodies : FetchOk(b)
    \/ \E r \in FailedReplies : FetchFail(r)
    \/ Return

SpecCycle == InitTokyo /\ [][NextCycle]_vars

\* the plotted set: one search, records with every kind of coordinates
NextGeo ==
    \/ FirstSubmit(MapForm)
    \/ DateStep
    \/ BuildQuery
    \/ \E b \in CoordBodies : FetchOk(b)
    \/ \E r \in FailedReplies : FetchFail(r)
    \/ Return
    \/ Mount(1)
    \/ Rerender(1)
    \/ LeafletLoad
    \/ \E z \in ZoomLevels : RenderResume(1, z)

SpecGeo == InitTokyo /\ [][NextGeo]_vars

\* one map view, its map zoomed by the user and focused by events
NextMap ==
    \/ FirstSubmit(MapForm)
    \/ DateStep
    \/ BuildQuery
    \/ \E b \in MapBodies : FetchOk(b)
    \/ FetchFail(FailedReply("network", 0, <<>>))
    \/ Return
    \/ Mount(1)
    \/ Unmount(1)
    \/ Rerender(1)
    \/ LeafletLoad
    \/ LeafletError
    \/ \E z \in ZoomLevels : RenderResume(1, z)
    \/ RenderFail(1)
    \/ StaleResume(1, 5)
    \/ \E z \in ZoomLevels : UserZoom(1, z)
    \/ \E d \in Payloads : Publish(d)

SpecMap == InitTokyo /\ [][NextMap]_vars

\* two map views that come and go, and events on the bus
NextBus ==
    \/ FirstSubmit(MapForm)
    \/ DateStep
    \/ BuildQuery
    \/ FetchOk(<<VenueTokyo, VenueSapporo>>)
    \/ Return
    \/ \E v \in Views : Mount(v)
    \/ \E v \in Views : Unmount(v)
    \/ \E v \in Views : Rerender(v)
    \/ LeafletLoad
    \/ \E v \in Views : RenderResume(v, 5)
    \/ \E v \in Views : StaleResume(v, 5)
    \/ \E d \in {FocusPayload(1), FocusPayload(9)} : Publish(d)

SpecBus == InitTokyo /\ [][NextBus]_vars

\* the results of the searches of a page, one after the other: a record
\* with coordinates, or one without
SurfaceBodies == {<<VenueTokyo>>, <<VenueNowhere>>}

\* results that replace each other: two records with coordinates, one of
\* them alone, and one without coordinates
ReplaceBodies ==
    {<<VenueTokyo, VenueSapporo>>, <<VenueTokyo>>, <<VenueNowhere>>}

\* one map view over searches that replace each other, shown inline and in
\* full screen, mounted and unmounted, while Leaflet loads
NextSurface ==
    \/ Submit(MapForm)
    \/ DateStep
    \/ BuildQuery
    \/ \E b \in SurfaceBodies : FetchOk(b)
    \/ Return
    \/ Mount(1)
    \/ Unmount(1)
    \/ Rerender(1)
    \/ ToggleFullScreen(1)
    \/ LeafletLoad
    \/ RenderResume(1, 5)
    \/ StaleResume(1, 5)

SpecSurface == InitTokyo /\ [][NextSurface]_vars

\* one map view over searches that replace each other, and events for the
\* record that only the larger result holds
NextReplace ==
    \/ Submit(MapForm)
    \/ DateStep
    \/ BuildQuery
    \/ \E b \in ReplaceBodies : FetchOk(b)
    \/ Return
    \/ Mount(1)
    \/ Rerender(1)
    \/ LeafletLoad
    \/ RenderResume(1, 5)
    \/ StaleResume(1, 5)
    \/ Publish(FocusPayload(2))

SpecReplace == InitTokyo /\ [][NextReplace]_vars

\* two map views and the script of Leaflet, which loads or fails
NextAssets ==
    \/ FirstSubmit(MapForm)
    \/ DateStep
    \/ BuildQuery
    \/ FetchOk(<<VenueTokyo>>)
    \/ Return
    \/ \E v \in Views : Mount(v)
    \/ \E v \in Views : Unmount(v)
    \/ \E v \in Views : Rerender(v)
    \/ \E v \in Views : ToggleFullScreen(v)
    \/ LeafletLoad
    \/ LeafletError
    \/ \E v \in Views : RenderResume(v, 5)
    \/ \E v \in Views : RenderFail(v)
    \/ \E v \in Views : StaleResume(v, 5)

SpecAssets == InitTokyo /\ [][NextAssets]_vars

\* click targets: the card, a paragraph, the image in a link, a link, the
\* button, and form controls
Targets ==
    {<<"article">>, <<"p", "header", "div", "article">>,
     <<"img", "a", "figure", "div", "article">>,
     <<"a", "h3", "header", "div", "article">>,
     <<"button", "div", "dd", "div", "dl", "div", "article">>,
     <<"input", "article">>, <<"textarea", "article">>,
     <<"select", "article">>}

\* the records of a search: one with a marker, one without coordinates
CardBody == <<VenueTokyo, VenueNowhere>>

CardIds == {CardBody[i].id : i \in 1..Len(CardBody)}

\* searches one after the other, clicks on cards and markers, and timers
NextCards ==
    \/ Submit(MapForm)
    \/ DateStep
    \/ BuildQuery
    \/ FetchOk(CardBody)
    \/ Return
    \/ Mount(1)
    \/ Rerender(1)
    \/ LeafletLoad
    \/ RenderResume(1, 5)
    \/ StaleResume(1, 5)
    \/ \E id \in CardIds, target \in Targets : handleArticleClick(id, target)
    \/ \E id \in CardIds : MarkerClick(1, id)
    \/ TimerFires

SpecCards == InitTokyo /\ [][NextCards]_vars

\* the date fields of the form, edited in any order
NextForm ==
    \/ \E value \in FieldDates : handleStartDateChange(value)
    \/ \E value \in FieldDates : handleEndDateChange(value)

SpecForm == InitTokyo /\ [][NextForm]_vars

-----------------------------------------------------------------------------
(* Properties *)

Answered == pc = "done" /\ response.status = 200

\* the fetched record is part of the response
Kept(e) == \E j \in 1..Len(response.events) : response.events[j].id = e.id

\* the fields of a record that are present, joined by single spaces, the
\* markup of the description removed, in lower case
SearchableText(e) ==
    LET present(x) == x # NullStr /\ x # <<>>
        plain == IF present(e.description)
                 THEN StripFrom(e.description, 1, FALSE) ELSE <<>>
        parts == SelectSeq(<<e.title, e.place, e.address, plain>>, present)
    IN  ToLowerCase(JoinSpace(parts))

AllIncluded(e) ==
    \A i \in 1..Len(includeKeywords) :
        Includes(SearchableText(e), ToLowerCase(includeKeywords[i]))

NoneExcluded(e) ==
    \A i \in 1..Len(excludeKeywords) :
        ~Includes(SearchableText(e), ToLowerCase(excludeKeywords[i]))

\* C1: a fetched record is kept only if every include term is a substring of
\* its lower-cased searchable text and no exclude term is, terms and text
\* compared without regard to case, and a baseline-eligible record that
\* meets both conditions is kept; when both term lists are empty every
\* baseline-eligible record is kept.
C1_KeywordMatch ==
    Answered =>
        /\ \A i \in 1..Len(fetched) :
              Kept(fetched[i]) => AllIncluded(fetched[i]) /\ NoneExcluded(fetched[i])
        /\ \A i \in 1..Len(fetched) :
              (passesBaseConditions(fetched[i]) /\ AllIncluded(fetched[i])
                  /\ NoneExcluded(fetched[i])) => Kept(fetched[i])
        /\ (includeKeywords = <<>> /\ excludeKeywords = <<>>) =>
              \A i \in 1..Len(fetched) :
                  passesBaseConditions(fetched[i]) => Kept(fetched[i])

\* the example of the specification: include "go", exclude "tokyo", a record
\* titled "Go Conference" in Osaka is kept
C1_Witness ==
    /\ Answered
    /\ formData.keyword = <<"G", "o", " ", "-", "T", "O", "K", "Y", "O">>
    /\ Len(fetched) = 1
    /\ fetched[1].title = <<"G", "o", " ", "C", "o", "n", "f", "e", "r", "e", "n", "c", "e">>
    /\ fetched[1].address = <<"O", "s", "a", "k", "a">>
    /\ Len(response.events) = 1

\* eligible but for the capacity: pre-open, a venue off the denylist, a
\* title off the denylist
OtherwiseEligible(e) ==
    /\ e.open_status = "preopen"
    /\ e.place # NullStr /\ e.place # <<>>
    /\ \A a \in PlaceDenylist : ~Includes(ToLowerCase(e.place), a)
    /\ e.title = NullStr \/ \A a \in TitleDenylist : ~Includes(ToLowerCase(e.title), a)

\* C2: a record that is otherwise eligible (and matches the keywords) is
\* kept if and only if its capacity limit is unset or greater than 10; a
\* limit of 0..10 rejects it.
C2_CapacityOver10 ==
    Answered =>
        \A i \in 1..Len(fetched) :
            (OtherwiseEligible(fetched[i]) /\ AllIncluded(fetched[i])
                /\ NoneExcluded(fetched[i]))
            => (Kept(fetched[i]) <=>
                   (fetched[i].limit = NoLimit \/ fetched[i].limit > 10))

\* C4: every record of the output has registration status "preopen", a
\* venue that is present and contains no venue denylist substring, and a
\* title that contains no title denylist substring, in any letter case.
C4_BaselineEligible ==
    Answered => \A j \in 1..Len(response.events) :
                    OtherwiseEligible(response.events[j])

C4_Witness ==
    /\ Answered
    /\ includeKeywords # <<>>
    /\ Len(response.events) = 1
    /\ response.events[1].title = <<"G", "o", " ", "C", "o", "n", "f", "e", "r", "e", "n", "c", "e">>
    /\ response.events[1].place = <<"H", "a", "l", "l">>

\* The words of a string: its maximal runs of characters that are not white
\* space, in order
RunStarts(s) ==
    {i \in 1..Len(s) : s[i] \notin WhiteSpace /\ (i = 1 \/ s[i - 1] \in WhiteSpace)}

RunEnd(s, i) ==
    CHOOSE j \in i..Len(s) :
        /\ \A k \in i..j : s[k] \notin WhiteSpace
        /\ j = Len(s) \/ s[j + 1] \in WhiteSpace

KthStart(s, k) ==
    CHOOSE i \in RunStarts(s) : Cardinality({j \in RunStarts(s) : j < i}) = k - 1

WordsOf(s) ==
    [k \in 1..Cardinality(RunStarts(s)) |->
        SubSeq(s, KthStart(s, k), RunEnd(s, KthStart(s, k)))]

RawKeyword == IF formData.keyword = NullStr THEN <<>> ELSE formData.keyword

PlainWords == SelectSeq(WordsOf(RawKeyword), LAMBDA t : t[1] # "-")

DashWords == SelectSeq(WordsOf(RawKeyword), LAMBDA t : t[1] = "-" /\ Len(t) > 1)

Sent == pc \in {"fetching", "done"}

DatesBuilt == pc \in {"fetching", "done"}

DayOf(v) == DaysFromCivil(v.y, v.m, v.d)

TokenOfDay(day) ==
    CivilFromDays(day).y * 10000 + CivilFromDays(day).m * 100 + CivilFromDays(day).d

StartValid == formData.startDate.kind = "ymd"

EndValid == formData.endDate.kind = "ymd"

\* C5: for valid dates with start <= end the token list holds one token per
\* calendar day from start to end inclusive, ascending, none skipped or
\* repeated.
C5_OneTokenPerDay ==
    (DatesBuilt /\ StartValid /\ EndValid
        /\ DayOf(formData.startDate) <= DayOf(formData.endDate))
    => dates = [i \in 1..(DayOf(formData.endDate) - DayOf(formData.startDate) + 1)
                   |-> TokenOfDay(DayOf(formData.startDate) + i - 1)]

\* C6: when the start date is absent or unparseable the token list is empty
\* whatever the end date is, no ymd parameter is sent, and the handler goes
\* on to the fetch.
C6_InvalidStartSkipsDates ==
    (pc # "idle" /\ ~StartValid) =>
        /\ dates = <<>>
        /\ pc = "dates" => ENABLED BuildQuery
        /\ Sent => params.ymd = <<>> /\ params.count = maxCount

C6_Witness ==
    /\ pc = "fetching"
    /\ formData.startDate = TextDateStr
    /\ EndValid
    /\ params.ymd = <<>>

\* C7: when the start date is valid and the end date is absent or
\* unparseable, the end is the start and the token list is the one token of
\* the start day.
C7_InvalidEndIsStart ==
    (pc # "idle" /\ StartValid /\ ~EndValid) =>
        /\ endDate = startDate
        /\ DatesBuilt =>
              dates = <<formData.startDate.y * 10000 + formData.startDate.m * 100
                        + formData.startDate.d>>

C7_Witness ==
    /\ pc = "fetching"
    /\ formData.startDate = Jan30
    /\ formData.endDate = EmptyDateStr
    /\ dates = <<20240130>>

LocalDayOf(t, z) == (t + LocalTZA(t, TRUE, z)) \div HoursPerDay

\* C8: the loop over the dates terminates for every pair of valid dates:
\* each pass runs only while the cursor is not past the end and moves the
\* cursor forward by one calendar day (of the server's local time), the loop
\* is left with the cursor past the end, and for start > end no pass runs
\* and the token list is empty.
C8_LoopTerminates ==
    /\ [][DateStep => /\ cursor <= endDate
                      /\ cursor' > cursor
                      /\ LocalDayOf(cursor', tz) = LocalDayOf(cursor, tz) + 1]_vars
    /\ []((DatesBuilt /\ cursor # NullDate) => cursor > endDate)
    /\ []((pc # "idle" /\ StartValid /\ EndValid
             /\ DayOf(formData.startDate) > DayOf(formData.endDate))
          => dates = <<>> /\ ~ENABLED DateStep)
    /\ (pc = "dates") ~> (pc = "fetching")

C8_Witness ==
    /\ pc = "fetching"
    /\ StartValid /\ EndValid
    /\ DayOf(formData.startDate) > DayOf(formData.endDate)
    /\ dates = <<>>

\* C9: the keyword parameter of the query is the include terms joined by
\* single spaces in input order, so no exclude token is sent, and it is
\* absent when there is no include term.
C9_KeywordParam ==
    Sent => params.keyword =
                (IF PlainWords = <<>> THEN NullStr ELSE JoinSpace(PlainWords))

C9_Witness ==
    /\ pc = "fetching"
    /\ formData.keyword = <<"-", "f", "o", "o", " ", "b", "a", "r", " ", "-">>
    /\ params.keyword = <<"b", "a", "r">>

\* C10: when no region is selected, the regions of the query and the regions
\* echoed in formValues are both the one-element list of the default region.
C10_DefaultRegion ==
    (Sent /\ formData.prefectures = <<>>) =>
        /\ formValues.prefectures = <<"tokyo">>
        /\ params.prefecture = <<"tokyo">>

\* C11: every outbound query carries count = 100, one ymd parameter per
\* date token and one prefecture parameter per region code of the submitted
\* list, each in list order; a list that is empty gives no parameter of its
\* name.
C11_QueryFanOut ==
    Sent =>
        /\ params.count = 100
        /\ Len(params.ymd) = Len(dates)
        /\ \A i \in 1..Len(dates) : params.ymd[i] = dates[i]
        /\ Len(params.prefecture) = Len(formData.prefectures)
        /\ \A i \in 1..Len(formData.prefectures) :
              params.prefecture[i] = formData.prefectures[i]

\* three days and two regions: three ymd and two prefecture parameters
C11_Witness ==
    /\ pc = "fetching"
    /\ formData.prefectures = <<"chiba", "tokyo">>
    /\ dates = <<20240130, 20240131, 20240201>>
    /\ params.ymd = <<20240130, 20240131, 20240201>>
    /\ params.prefecture = <<"chiba", "tokyo">>

\* no start date and no region: neither parameter is sent
C11_WitnessEmpty ==
    /\ pc = "fetching"
    /\ formData.prefectures = <<>>
    /\ dates = <<>>
    /\ params.ymd = <<>>
    /\ params.prefecture = <<>>

\* the position of the record of this id in the fetched list
FetchedAt(id) == CHOOSE k \in 1..Len(fetched) : fetched[k].id = id

\* C12: the output is ordered by start time, ascending, and the sort is
\* stable: records of one start time keep the order in which they were
\* fetched, whatever the order of the fetched list.
C12_SortedStable ==
    Answered =>
        \A i \in 1..Len(response.events) : \A j \in 1..Len(response.events) :
            i < j =>
                /\ response.events[i].started_at <= response.events[j].started_at
                /\ response.events[i].started_at = response.events[j].started_at
                      => FetchedAt(response.events[i].id)
                             < FetchedAt(response.events[j].id)

\* fetched 7, 5, 7, 5: the output is 5, 5, 7, 7 with each pair in fetch order
C12_Witness ==
    /\ Answered
    /\ fetched = <<RustTie, RustEarly, RustMeetup, RustBeginner>>
    /\ Len(response.events) = 4
    /\ response.events[1].id = RustEarly.id
    /\ response.events[2].id = RustBeginner.id
    /\ response.events[3].id = RustTie.id
    /\ response.events[4].id = RustMeetup.id

\* the fetch of this invocation failed
Failed == pc = "done" /\ reply.kind \in {"network", "status", "json"}

\* C13: a fetch that fails in any way (a status that is not ok, a network
\* error, a body that is no JSON) gives one and the same outcome: no
\* records, the echoed form values, the fixed error message, status 502;
\* nothing of the failed answer reaches the page.  A fetch that succeeds
\* gives status 200 and no error message.
C13_UniformFailure ==
    /\ Failed =>
          response = [status |-> 502, events |-> <<>>,
                      formValues |-> MakeFormValues(formData),
                      errorMessage |-> ErrorMessage]
    /\ (pc = "done" /\ reply.kind = "ok") =>
          /\ response.status = 200
          /\ response.errorMessage = NoErrorMessage
          /\ response.formValues = MakeFormValues(formData)
    /\ actionData.status = 502 =>
          actionData.events = <<>> /\ actionData.errorMessage = ErrorMessage
    /\ actionData.status = 200 => actionData.errorMessage = NoErrorMessage

\* the remote catalogue answered 500 with records in the body
C13_Witness ==
    /\ Failed
    /\ reply.kind = "status"
    /\ reply.status = 500
    /\ Len(reply.events) = 2
    /\ response.status = 502
    /\ response.events = <<>>

\* the state of the search pipeline as the page sees it, home.tsx:210-216
PipelineState ==
    IF navigation = "submitting" THEN "Submitting"
    ELSE IF actionData = NoActionData THEN "Idle"
    ELSE IF actionData.errorMessage # NoErrorMessage THEN "Failed"
    ELSE "Success"

\* C14: a submission takes the pipeline from Idle, Success or Failed to
\* Submitting and from there to exactly one of Success and Failed; between
\* the two steps exactly one request goes out, and after the answer none
\* goes out until the next submission (a failure is not retried).
C14_OneRequestPerSubmission ==
    [][/\ PipelineState' # PipelineState =>
             \/ PipelineState \in {"Idle", "Success", "Failed"}
                   /\ PipelineState' = "Submitting"
             \/ PipelineState = "Submitting"
                   /\ PipelineState' \in {"Success", "Failed"}
                   /\ requests = 1
                   /\ PipelineState' = "Failed" <=> response.status = 502
       /\ requests' # requests =>
             \/ PipelineState # "Submitting" /\ PipelineState' = "Submitting"
                   /\ requests' = 0
             \/ PipelineState = "Submitting" /\ requests = 0 /\ requests' = 1
                   /\ pc = "dates"
       /\ (pc = "fetching" /\ pc' # "fetching") => pc' = "done"
      ]_vars

\* a submission after a failed one has been answered, with its one request
C14_Witness ==
    /\ actionData.status = 502
    /\ pc = "done"
    /\ response.status = 200
    /\ requests = 1

\* position k of s lies in a span that starts at a "<" and runs to the next
\* ">" (inclusive) or, without one, to the end of s
InSpan(s, k) ==
    \E i \in 1..k : s[i] = "<" /\ \A m \in i..(k - 1) : s[m] # ">"

\* the characters of s outside every span, in order
RECURSIVE OutsideSpans(_, _)
OutsideSpans(s, n) ==
    IF n = 0 THEN <<>>
    ELSE IF InSpan(s, n) THEN OutsideSpans(s, n - 1)
    ELSE Append(OutsideSpans(s, n - 1), s[n])

\* C15: the description of every record of the output is the fetched
\* description without its angle-bracket spans (no "<" is left, an
\* unterminated tag included), and no other field differs from the fetched
\* record.
C15_DescriptionSanitized ==
    Answered =>
        \A j \in 1..Len(response.events) :
            LET out == response.events[j]
                in == fetched[FetchedAt(out.id)]
            IN  /\ \A k \in 1..Len(out.description) : out.description[k] # "<"
                /\ out.description =
                      IF in.description = NullStr THEN EmptyStr
                      ELSE OutsideSpans(in.description, Len(in.description))
                /\ out = [in EXCEPT !.description = out.description]

\* an unterminated tag after a closed one
C15_Witness ==
    /\ Answered
    /\ Len(fetched) = 1
    /\ fetched[1].description = <<"<", ">", "a", "<">>
    /\ Len(response.events) = 1
    /\ response.events[1].description = <<"a">>

\* view v has rendered the result the page holds
Settled(v) ==
    /\ mounted[v]
    /\ props[v] = PageProps
    /\ ~props[v].isLoading
    /\ ~renderTask[v].live

\* the ids of the markers on the map of view v
Plotted(v) ==
    {markersLayerRef[v][i].id : i \in 1..Len(markersLayerRef[v])}

\* the value is a number (or a string that spells one), and finite
NumericCoord(c) == c.kind \in {"num", "numstr"}

\* C16: the plotted set is exactly the records of the result whose
\* latitude and longitude are both finite numbers; a record whose latitude
\* or longitude is null, undefined, empty or not numeric is never plotted,
\* and every record of the result is in the list all the same.
C16_PlottedHaveCoordinates ==
    \A v \in Views :
        (Settled(v) /\ actionData.status = 200) =>
            /\ \A i \in 1..Len(actionData.events) :
                  LET e == actionData.events[i]
                  IN  e.id \in Plotted(v) <=>
                          NumericCoord(e.lat) /\ NumericCoord(e.lon)
            /\ ListCards = actionData.events

\* the listeners on the bus that belong to view v
SubscribersOf(v) == {i \in 1..Len(listeners) : listeners[i] = v}

\* C17: whatever the sequence of mounts, renders and unmounts, a mounted
\* map view has exactly one listener on the bus and an unmounted one has
\* none; an event dispatched while a view is unmounted does not reach a
\* listener of that view and leaves it without a map.
C17_SubscriberLifecycle ==
    /\ [](\A v \in Views :
            Cardinality(SubscribersOf(v)) = IF mounted[v] THEN 1 ELSE 0)
    /\ [][\A d \in Payloads : Publish(d) =>
             \A v \in Views : ~mounted[v] =>
                 /\ \A i \in 1..Len(dispatched'.log) : dispatched'.log[i] # v
                 /\ mapRef'[v] = NoMap
                 /\ markerEventMapRef'[v] = EmptyLookup]_vars

\* view 1 is off the page and view 2 on it with its map; the last event,
\* for marker 1, reached the listener of view 2 alone
C17_Witness ==
    /\ ~mounted[1]
    /\ mounted[2]
    /\ mapRef[2].live
    /\ dispatched.payload = FocusPayload(1)
    /\ dispatched.log = <<2>>
    /\ listeners = <<2>>
    /\ mapRef[2].popup = 1

\* C18: dispatch is synchronous and nothing is queued: within the step of
\* the dispatch the event reaches exactly the listeners registered at that
\* moment, in the order of their registration, and each has acted on it; a
\* listener registered later gets nothing of it.
C18_SynchronousDelivery ==
    /\ [][\A d \in Payloads : Publish(d) =>
             /\ dispatched'.payload = d
             /\ dispatched'.log = listeners
             /\ \A v \in Views :
                   mapRef'[v] =
                       IF SubscribersOf(v) # {}
                       THEN handleFocusMarker(mapRef[v], markerEventMapRef[v], d)
                       ELSE mapRef[v]]_vars
    /\ [][listeners' # listeners =>
             /\ dispatched' = dispatched
             /\ \A v \in Views :
                   (SubscribersOf(v) = {} /\ mounted'[v]) => mapRef'[v] = NoMap
          ]_vars
    /\ [][dispatched' # dispatched => \E d \in Payloads : Publish(d)]_vars

\* view 2 registered before view 1; the event for marker 1 reached both, in
\* that order, and both maps have the popup of marker 1 open
C18_Witness ==
    /\ listeners = <<2, 1>>
    /\ dispatched.payload = FocusPayload(1)
    /\ dispatched.log = <<2, 1>>
    /\ mapRef[1].popup = 1
    /\ mapRef[2].popup = 1

\* view 2 registered after the event for marker 1 was dispatched: its map
\* shows no popup
C18_WitnessLate ==
    /\ listeners = <<1, 2>>
    /\ dispatched.payload = FocusPayload(1)
    /\ dispatched.log = <<1>>
    /\ mapRef[1].popup = 1
    /\ mapRef[2].live
    /\ mapRef[2].popup = NoPopup

\* the event carries a number as its id, view v listens and has a map with
\* a marker of that id
HasTarget(v, d) ==
    /\ d.custom
    /\ d.idType = "number"
    /\ SubscribersOf(v) # {}
    /\ mapRef[v].live
    /\ \E i \in 1..Len(markersLayerRef[v]) : markersLayerRef[v][i].id = d.eventId

\* where the marker of this id stands on the map of view v
MarkerPosition(v, id) ==
    LatLng(markersLayerRef[v][CHOOSE i \in 1..Len(markersLayerRef[v]) :
                                 markersLayerRef[v][i].id = id])

\* C19: an event for the id X opens the popup of the marker of X and
\* centres the map on that marker, and on no other; when X has no marker,
\* or the view has no map, or the id is not a number, the view, the zoom
\* and the popups of the map stay as they are.  The markers stay in either
\* case.
C19_FocusOnlyTarget ==
    [][\A d \in Payloads : Publish(d) =>
          /\ \A v \in Views :
                IF HasTarget(v, d)
                THEN /\ mapRef'[v].live
                     /\ mapRef'[v].popup = d.eventId
                     /\ mapRef'[v].center = MarkerPosition(v, d.eventId)
                ELSE mapRef'[v] = mapRef[v]
          /\ markersLayerRef' = markersLayerRef
          /\ markerEventMapRef' = markerEventMapRef]_vars

\* the event for marker 2 of three records, one without coordinates
C19_Witness ==
    /\ dispatched.payload = FocusPayload(2)
    /\ dispatched.log = <<1>>
    /\ Len(markersLayerRef[1]) = 2
    /\ mapRef[1].popup = 2
    /\ mapRef[1].center = [lat |-> 43, lon |-> 141]

\* the event for record 3, which has no marker: the map is as the render
\* left it
C19_WitnessNoMarker ==
    /\ dispatched.payload = FocusPayload(3)
    /\ dispatched.log = <<1>>
    /\ Len(markersLayerRef[1]) = 2
    /\ mapRef[1].popup = NoPopup
    /\ mapRef[1].center = [lat |-> 39, lon |-> 140]

\* C20: a focus never lowers the zoom: the zoom after it is the larger of
\* the zoom before it and 8, whatever the zoom before.
C20_ZoomNeverDecreases ==
    [][\A d \in Payloads : Publish(d) =>
          \A v \in Views : HasTarget(v, d) =>
              /\ mapRef'[v].zoom = Max2(mapRef[v].zoom, 8)
              /\ mapRef'[v].zoom >= mapRef[v].zoom
              /\ mapRef'[v].zoom >= 8]_vars

\* the user had zoomed in to 15, the focus left the zoom at 15
C20_Witness ==
    /\ dispatched.payload = FocusPayload(1)
    /\ dispatched.log = <<1>>
    /\ mapRef[1].popup = 1
    /\ mapRef[1].zoom = 15

\* the focus raised a zoom below 8 to 8
C20_WitnessFloor ==
    /\ dispatched.payload = FocusPayload(1)
    /\ dispatched.log = <<1>>
    /\ mapRef[1].popup = 1
    /\ mapRef[1].zoom = 8

\* whether a timer that removes the highlight of the card id is pending
PendingFor(id) == \E i \in 1..Len(timers) : timers[i] = Timer(id)

\* whether the click target lies in a link, a button or a form control of
\* the card
Nested(target) ==
    \E i \in 1..Len(target) :
        target[i] \in {"a", "button", "input", "textarea", "select"}

\* C21: a click on the marker of the record X dispatches an event for X on
\* the bus, every listener registered at that time is called with it, and
\* the card of X is scrolled to and highlighted.
C21_MarkerClickPublishes ==
    [][\A id \in CardIds : MarkerClick(1, id) =>
          /\ dispatched'.payload = FocusPayload(id)
          /\ dispatched'.log = listeners
          /\ scrolledTo' = id
          /\ id \in highlighted']_vars

\* what does hold of a click on a marker: the card is scrolled to and
\* highlighted, and nothing is dispatched on the bus
C21_MarkerClickScrolls ==
    [][\A id \in CardIds : MarkerClick(1, id) =>
          /\ dispatched' = dispatched
          /\ scrolledTo' = id
          /\ id \in highlighted'
          /\ PendingFor(id)']_vars

\* the marker of record 1 was clicked, with a listener registered
C21_Witness ==
    /\ scrolledTo = 1
    /\ 1 \in highlighted
    /\ listeners = <<1>>
    /\ dispatched = NoDispatch

\* C22: a click on the card of the record X, on a target outside every
\* link, button and form control of the card, dispatches one event for X
\* (each listener is called once, in order) and highlights the card; a
\* click on a target inside one of these dispatches nothing, highlights
\* nothing and sets no timer.
C22_CardClickPublishesOnce ==
    [][\A id \in CardIds, target \in Targets :
          handleArticleClick(id, target) =>
              IF Nested(target)
              THEN UNCHANGED <<dispatched, mapRef, highlighted, timers>>
              ELSE /\ dispatched'.payload = FocusPayload(id)
                   /\ dispatched'.log = listeners
                   /\ highlighted' = highlighted \cup {id}
                   /\ timers' = Append(timers, Timer(id))]_vars

\* the card of record 3 was clicked while the map view listened
C22_Witness ==
    /\ dispatched.payload = FocusPayload(3)
    /\ dispatched.log = <<1>>
    /\ 3 \in highlighted
    /\ PendingFor(3)

\* C23: every card that carries the highlight has a pending timer that
\* removes it; so once every timer has fired, no card carries it.
C23_HighlightTransient ==
    /\ \A id \in highlighted : PendingFor(id)
    /\ timers = <<>> => highlighted = {}

\* a card and a marker were clicked and every timer has fired since
C23_Witness ==
    /\ scrolledTo = 1
    /\ dispatched.payload = FocusPayload(3)
    /\ timers = <<>>
    /\ highlighted = {}

\* the surface that view v renders its map on (part_001:204, 217)
ActiveSurface(v) == IF isFullScreenOpen[v] THEN "fullscreen" ELSE "inline"

\* the ids of the records of the page's result that have coordinates
GeoIds ==
    {geoEvents(PageProps.events)[i].id :
        i \in 1..Len(geoEvents(PageProps.events))}

\* C24: when a render resumes while the map sits on another surface than
\* the active one (inline against full screen, either way), or while there
\* is a map and the commit before the render ended a load, the map is
\* destroyed and a new one is created; a map is created on a surface only
\* after the id of that surface was cleared, so the creation never fails,
\* and after every such render the map is there, on the active surface.
C24_RecreatedOnSurfaceChange ==
    [][\A v \in Views, z \in ZoomLevels : RenderResume(v, z) =>
          /\ (mapRef[v].live /\ mapContainer[v] # ActiveSurface(v)) =>
                 (rendered'[v].destroyed /\ rendered'[v].created)
          /\ (mapRef[v].live /\ prevLoadingRef[v]) =>
                 (rendered'[v].destroyed /\ rendered'[v].created)
          /\ ~mapRef[v].live => rendered'[v].created
          /\ ~rendered'[v].error
          /\ ~rendered'[v].skipped
          /\ mapRef'[v].live
          /\ mapContainer'[v] = ActiveSurface(v)
          /\ leafletId'[v][ActiveSurface(v)]
          /\ instances'[v] = 1]_vars

\* the dialog was opened over an inline map: the map was destroyed and
\* created again in full screen
C24_Witness ==
    /\ rendered[1].destroyed
    /\ rendered[1].created
    /\ mapContainer[1] = "fullscreen"
    /\ ~prevLoadingRef[1]

\* the dialog was closed: the map is inline again
C24_WitnessClose ==
    /\ rendered[1].destroyed
    /\ rendered[1].created
    /\ mapContainer[1] = "inline"
    /\ ~prevLoadingRef[1]

\* a second search has ended over an inline map
C24_WitnessLoaded ==
    /\ rendered[1].destroyed
    /\ rendered[1].created
    /\ mapContainer[1] = "inline"
    /\ prevLoadingRef[1]

\* C25: a view has at most one Leaflet map that it created and did not
\* remove, and it is the one mapRef holds; it has none when it is not
\* mounted and none when it shows a result without a located record; a
\* render whose effect was cleaned up (by a later commit or by the unmount)
\* changes nothing of the map, the markers and the lookup when it resumes.
C25_AtMostOneInstance ==
    /\ [](\A v \in Views :
            /\ instances[v] \in {0, 1}
            /\ instances[v] = 1 <=> mapRef[v].live
            /\ ~mapRef[v].live =>
                   (markersLayerRef[v] = <<>> /\ mapContainer[v] = NoSurface)
            /\ ~mounted[v] => instances[v] = 0
            /\ (mounted[v] /\ Branch(props[v]) = "message") =>
                   instances[v] = 0)
    /\ [][\A v \in Views, z \in ZoomLevels : StaleResume(v, z) =>
             /\ rendered'[v].skipped \/ rendered'[v].error
             /\ UNCHANGED <<mapRef, markersLayerRef, markerEventMapRef,
                            mapContainer, instances, leafletId>>]_vars

\* the view was unmounted while Leaflet loaded; the render resumed and did
\* nothing
C25_Witness ==
    /\ ~mounted[1]
    /\ leaflet = "loaded"
    /\ rendered[1].skipped
    /\ staleTasks[1] = {}
    /\ instances[1] = 0

\* the dialog was opened while Leaflet loaded; the render of the commit
\* before resumed last and left the map of the later render alone
C25_WitnessRerender ==
    /\ mounted[1]
    /\ rendered[1].skipped
    /\ staleTasks[1] = {}
    /\ mapContainer[1] = "fullscreen"
    /\ instances[1] = 1

\* a search without a located record followed one with a map
C25_WitnessEmpty ==
    /\ mounted[1]
    /\ Branch(props[1]) = "message"
    /\ rendered[1].created
    /\ instances[1] = 0

\* C26: once a view has rendered the result of the last search, its
\* markers and its lookup are those of the located records of that result
\* and of no other, and the list shows the records of that result; an
\* event for an id that only an earlier result held focuses nothing.
C26_ResultReplaced ==
    /\ [](\A v \in Views : (Settled(v) /\ leaflet = "loaded") =>
            /\ Plotted(v) = GeoIds
            /\ DOMAIN markerEventMapRef[v] = GeoIds
            /\ Len(markersLayerRef[v]) = Cardinality(GeoIds)
            /\ ListCards = actionData.events)
    /\ [][\A v \in Views :
             (Publish(FocusPayload(2)) /\ Settled(v) /\ leaflet = "loaded"
                 /\ 2 \notin GeoIds) => mapRef'[v] = mapRef[v]]_vars

\* record 2 was on the map of an earlier search; the result of the last
\* one is record 1 alone, and the event for record 2 found nothing
C26_Witness ==
    /\ Settled(1)
    /\ rendered[1].destroyed
    /\ Plotted(1) = {1}
    /\ dispatched.payload = FocusPayload(2)
    /\ dispatched.log = <<1>>
    /\ mapRef[1].live
    /\ mapRef[1].popup = NoPopup

\* C27: whatever the sequence of edits of the two date fields, the form
\* never holds an end date that is earlier than its start date; an edit of
\* the start past the end, or of the end before the start, leaves both
\* fields at the edited value.
C27_NeverInverted ==
    (fieldStartDate.kind = "ymd" /\ fieldEndDate.kind = "ymd") =>
        DayOf(fieldStartDate) <= DayOf(fieldEndDate)

\* C28: whatever the calls of ensureLeafletAssets, at most one script
\* element is appended, and it is appended by the first call; every render
\* that awaits Leaflet while the load is pending awaits that one load: once
\* it has ended, each of them can resume, and no call after the first
\* appends a script.
C28_ScriptLoadedOnce ==
    /\ [](/\ scripts \in {0, 1}
          /\ scripts = 0 <=> leaflet = "unloaded"
          /\ leaflet \in {"loaded", "failed"} =>
                \A v \in Views :
                    /\ renderTask[v].live =>
                           ENABLED (RenderResume(v, 5) \/ RenderFail(v))
                    /\ staleTasks[v] # {} => ENABLED StaleResume(v, 5))
    /\ [][leaflet # "unloaded" => scripts' = scripts]_vars

\* both views await the one pending load, one of them with two renders
C28_Witness ==
    /\ leaflet = "loading"
    /\ scripts = 1
    /\ renderTask[1].live
    /\ renderTask[2].live
    /\ staleTasks[1] # {}

\* C29: when the load of Leaflet has failed and the render of a view has
\* logged the error, the view shows the message that no record has a
\* location instead of the surface of the map.
C29_DegradesToMessage ==
    \A v \in Views :
        (mounted[v] /\ leaflet = "failed" /\ ~renderTask[v].live
            /\ rendered[v].error /\ ~props[v].isLoading) =>
            Branch(props[v]) = "message"

\* what does hold when the load has failed: the error is logged, there is
\* no map, and the view shows what it shows for its props
C29_LoggedNoMap ==
    \A v \in Views :
        (mounted[v] /\ leaflet = "failed" /\ ~renderTask[v].live
            /\ Branch(props[v]) = "surface") =>
            (rendered[v].error /\ ~mapRef[v].live /\ instances[v] = 0)

\* C30: a card stays highlighted until 1800 ms after the last interaction
\* that highlighted it: while a timer of one of its interactions is
\* pending, the card carries the highlight.
C30_FullDelay == \A id \in CardIds : PendingFor(id) => id \in highlighted

====
